---- MODULE Spec2Model ----
(***************************************************************************)
(* Streaming completion consumer (ambient_client/streaming.py) and the     *)
(* receipt verifier (verify_receipt.py).                                   *)
(*                                                                         *)
(* Text is modelled at two levels.  Content strings ("Hi") are sequences   *)
(* of characters.  Frame payloads are atoms (one TLA+ string per payload   *)
(* text); json.loads is the table JsonLoads from payload text to a tagged  *)
(* Python value, and "\n".join is the token sequence Join.  sha256 is      *)
(* modelled as a collision-free digest: 64 lower-case hex characters that  *)
(* encode the hashed token sequence, two hex digits per token.             *)
(***************************************************************************)
EXTENDS Integers, Sequences, FiniteSets, TLC

\* ------------------------------------------------------------------------
\* Bounds
\* ------------------------------------------------------------------------
MaxLines == 3

\* ------------------------------------------------------------------------
\* Python values
\* ------------------------------------------------------------------------
None == <<>>
Some(v) == <<v>>

PyNull == [t |-> "null"]
PyInt(n) == [t |-> "int", n |-> n]
PyStr(s) == [t |-> "str", s |-> s]
PyList(l) == [t |-> "list", l |-> l]
PyDict(d) == [t |-> "dict", d |-> d]

IsDict(v) == v.t = "dict"

\* Python truth value of a JSON value
Truthy(v) ==
    CASE v.t = "null" -> FALSE
      [] v.t = "int"  -> v.n # 0
      [] v.t = "str"  -> v.s # <<>>
      [] v.t = "list" -> v.l # <<>>
      [] v.t = "dict" -> DOMAIN v.d # {}

\* dict.get(key, default)
Get(v, key, default) == IF key \in DOMAIN v.d THEN v.d[key] ELSE default

\* x or default
Or(x, default) == IF Truthy(x) THEN x ELSE default

EmptyDict == PyDict(<<>>)
EmptyStr == PyStr(<<>>)

\* ------------------------------------------------------------------------
\* Frame payload texts and json.loads
\* ------------------------------------------------------------------------
DONE == "[DONE]"
P_NotJson == "{not json"
P_Empty == ""
P_Replaced == "\\ufffd"
P_Hi == "{\"choices\":[{\"delta\":{\"content\":\"Hi\"}}]}"
P_There == "{\"choices\":[{\"delta\":{\"content\":\" th\"}},{\"delta\":{\"content\":\"ere\",\"reasoning_content\":\"hm\"}}]}"
P_U50 == "{\"choices\":[],\"usage\":{\"prompt_tokens\":5,\"completion_tokens\":0}}"
P_U00 == "{\"choices\":[],\"usage\":{\"prompt_tokens\":0,\"completion_tokens\":0}}"
P_U127 == "{\"choices\":[],\"usage\":{\"prompt_tokens\":12,\"completion_tokens\":7}}"
P_List == "[1]"
P_Think == "{\"choices\":[{\"delta\":{\"reasoning_content\":\"hm\"}}]}"
fake_event == "{\"choices\": [{\"delta\": {\"content\": \" [INJECTED_TOKEN]\"}, \"finish_reason\": null}]}"

Choice(delta) == PyDict([delta |-> delta])
Delta(c) == PyDict([content |-> PyStr(c)])
Usage(p, c) == PyDict([prompt_tokens |-> PyInt(p), completion_tokens |-> PyInt(c)])
UsageFrame(p, c) == PyDict([choices |-> PyList(<<>>), usage |-> Usage(p, c)])

\* The payload texts json.loads accepts, with the value it returns.
JsonTable ==
    [x \in {P_Hi, P_There, P_U50, P_U00, P_U127, P_List, P_Think, fake_event} |->
        CASE x = P_Hi -> PyDict([choices |-> PyList(<<Choice(Delta(<<"H", "i">>))>>)])
          [] x = P_There ->
                PyDict([choices |-> PyList(<<
                    Choice(Delta(<<" ", "t", "h">>)),
                    Choice(PyDict([content |-> PyStr(<<"e", "r", "e">>),
                                   reasoning_content |-> PyStr(<<"h", "m">>)]))>>)])
          [] x = P_U50 -> UsageFrame(5, 0)
          [] x = P_U00 -> UsageFrame(0, 0)
          [] x = P_U127 -> UsageFrame(12, 7)
          [] x = P_List -> PyList(<<PyInt(1)>>)
          [] x = P_Think ->
                PyDict([choices |-> PyList(<<Choice(PyDict([reasoning_content |-> PyStr(<<"h", "m">>)]))>>)])
          [] x = fake_event ->
                PyDict([choices |-> PyList(<<
                    PyDict([delta |-> Delta(<<" ", "[", "I", "N", "J", "E", "C", "T", "E", "D",
                                              "_", "T", "O", "K", "E", "N", "]">>),
                            finish_reason |-> PyNull])>>)])]

\* str.strip() on a payload text: of the modelled texts only P_DoneWS has
\* surrounding whitespace
P_DoneWS == " [DONE] "
StripText(text) == IF text = P_DoneWS THEN DONE ELSE text

JsonLoads_lenient(text) ==
    IF text \in DOMAIN JsonTable
    THEN [ok |-> TRUE, obj |-> JsonTable[text]]
    ELSE [ok |-> TRUE, obj |-> EmptyDict]

\* json.loads(text): ok = FALSE stands for json.JSONDecodeError
JsonLoads(text) ==
    IF text \in DOMAIN JsonTable
    THEN [ok |-> TRUE, obj |-> JsonTable[text]]
    ELSE [ok |-> FALSE]

\* ------------------------------------------------------------------------
\* Response lines and the frame decoder
\* ------------------------------------------------------------------------
WS == " "
DataPrefix == "data:"
InvalidUtf8 == "\\xff"

IsSpace(a) == a = WS

RECURSIVE LStrip(_)
LStrip(s) == IF s # <<>> /\ IsSpace(Head(s)) THEN LStrip(Tail(s)) ELSE s

RECURSIVE RStrip(_)
RStrip(s) == IF s # <<>> /\ IsSpace(s[Len(s)]) THEN RStrip(SubSeq(s, 1, Len(s) - 1)) ELSE s

\* str.strip() on a tokenised line
Strip(s) == RStrip(LStrip(s))

\* bytes.decode("utf-8"), falling back to errors="replace"
Decode(line) == [i \in 1..Len(line) |-> IF line[i] = InvalidUtf8 THEN P_Replaced ELSE line[i]]

StartsWithData(s) == s # <<>> /\ Head(s) = DataPrefix

\* the text of a token sequence that holds at most one payload atom
TextOf(s) == IF s = <<>> THEN P_Empty ELSE Head(s)

IterSseLine_nostrip(line) ==
    LET l == Decode(line)
    IN  IF StartsWithData(l) THEN <<TextOf(Strip(Tail(l)))>> ELSE <<>>

\* One iteration of the loop of _iter_sse_data: <<payload>> when the line
\* yields a frame, <<>> when the line is skipped.
IterSseLine(line) ==
    LET l == Strip(Decode(line))
    IN  IF StartsWithData(l) THEN <<TextOf(Strip(Tail(l)))>> ELSE <<>>

\* list(_iter_sse_data(lines)): the generator drained over a whole input
RECURSIVE _iter_sse_data(_)
_iter_sse_data(lines) ==
    IF lines = <<>> THEN <<>>
    ELSE IterSseLine(Head(lines)) \o _iter_sse_data(Tail(lines))

\* ------------------------------------------------------------------------
\* Content extraction (ambient_client/streaming.py)
\* ------------------------------------------------------------------------
\* The elements a Python for-loop visits; ok = FALSE stands for the
\* TypeError of iterating None or an int.  Iterating a str visits its
\* characters and iterating a dict visits its keys, both as str values.
IterItems(v) ==
    CASE v.t = "list" -> [ok |-> TRUE, items |-> v.l]
      [] v.t = "str"  -> [ok |-> TRUE, items |-> [i \in 1..Len(v.s) |-> PyStr(<<v.s[i]>>)]]
      [] v.t = "dict" -> [ok |-> TRUE, items |-> IF DOMAIN v.d = {} THEN <<>> ELSE <<PyStr(<<"k">>)>>]
      [] OTHER        -> [ok |-> FALSE]

\* The body of the loop over choices, folded over the list.  ok = FALSE
\* stands for the AttributeError of .get on a non-dict or the TypeError of
\* str += non-str.
RECURSIVE ExtractChoices(_, _, _)
ExtractChoices(choices, content, reasoning) ==
    IF choices = <<>> THEN [ok |-> TRUE, content |-> content, reasoning |-> reasoning]
    ELSE LET choice == Head(choices)
         IN  IF ~IsDict(choice) THEN [ok |-> FALSE]
             ELSE LET delta == Or(Get(choice, "delta", PyNull), EmptyDict)
                  IN  IF ~IsDict(delta) THEN [ok |-> FALSE]
                      ELSE LET c == Or(Get(delta, "content", PyNull), EmptyStr)
                               r == Or(Get(delta, "reasoning_content", PyNull), EmptyStr)
                           IN  IF c.t # "str" \/ r.t # "str" THEN [ok |-> FALSE]
                               ELSE ExtractChoices(Tail(choices), content \o c.s, reasoning \o r.s)

_extract_content_parts_first(obj) ==
    IF ~IsDict(obj) THEN [ok |-> FALSE]
    ELSE LET it == IterItems(Get(obj, "choices", PyList(<<>>)))
         IN  IF ~it.ok THEN [ok |-> FALSE]
             ELSE ExtractChoices(SubSeq(it.items, 1, IF it.items = <<>> THEN 0 ELSE 1), <<>>, <<>>)

_extract_content_parts(obj) ==
    IF ~IsDict(obj) THEN [ok |-> FALSE]
    ELSE LET it == IterItems(Get(obj, "choices", PyList(<<>>)))
         IN  IF ~it.ok THEN [ok |-> FALSE]
             ELSE ExtractChoices(it.items, <<>>, <<>>)

\* usage = obj.get("usage") or {} followed by the two usage.get calls;
\* ok = FALSE stands for the AttributeError of .get on a non-dict.  The
\* counts of the modelled payloads are ints.
UsageOf(obj) ==
    LET usage == Or(Get(obj, "usage", PyNull), EmptyDict)
    IN  IF ~IsDict(usage) THEN [ok |-> FALSE]
        ELSE [ok |-> TRUE,
              prompt_tokens |-> Get(usage, "prompt_tokens", PyNull),
              completion_tokens |-> Get(usage, "completion_tokens", PyNull)]

\* ------------------------------------------------------------------------
\* Joining and hashing
\* ------------------------------------------------------------------------
NL == "\n"

\* the characters a payload text contributes to a joined text
Tok(text) == IF text = P_Empty THEN <<>> ELSE <<text>>

\* "\n".join(raw_events), as a sequence of payload texts and newlines
RECURSIVE Join(_)
Join(evs) ==
    IF evs = <<>> THEN <<>>
    ELSE IF Len(evs) = 1 THEN Tok(evs[1])
    ELSE Tok(Head(evs)) \o <<NL>> \o Join(Tail(evs))

HexChars == <<"0", "1", "2", "3", "4", "5", "6", "7", "8", "9", "a", "b", "c", "d", "e", "f">>
HexLen == 64

\* every token a hashed text can be made of
Atoms ==
    <<NL, DONE, P_DoneWS, P_NotJson, P_Replaced, P_Hi, P_There, P_U50, P_U00, P_U127, P_List,
      fake_event, "max_tokens", "messages", "model", "stream", "stream_options",
      "temperature", "top_p", "true", "include_usage", "user-prompt", "org/model:v1",
      "0", "256", "1", "prompt", "zai-org/GLM-4.6", "org:model/v1", P_Think>>

CodeOf(a) == CHOOSE i \in 1..Len(Atoms) : Atoms[i] = a

RECURSIVE HexOf(_)
HexOf(toks) ==
    IF toks = <<>> THEN <<>>
    ELSE LET n == CodeOf(Head(toks))
         IN  <<HexChars[(n \div 16) + 1], HexChars[(n % 16) + 1]>> \o HexOf(Tail(toks))

\* hashlib.sha256(text.encode()).hexdigest(): HexLen lower-case hex
\* characters, different for different texts of up to HexLen \div 2 tokens
_hash(toks) == HexOf(toks) \o [i \in 1..(HexLen - 2 * Len(toks)) |-> "0"]

\* ------------------------------------------------------------------------
\* Request body
\* ------------------------------------------------------------------------
_build_payload_truthy(model, messages, temperature, max_tokens, top_p) ==
    LET base == [k \in {"model", "messages", "stream", "stream_options"} |->
                    CASE k = "model" -> model
                      [] k = "messages" -> messages
                      [] k = "stream" -> "true"
                      [] k = "stream_options" -> "include_usage"]
        opt(d, k, v) == IF v # None /\ v # Some("0") THEN (k :> v[1]) @@ d ELSE d
    IN  opt(opt(opt(base, "temperature", temperature), "max_tokens", max_tokens), "top_p", top_p)

\* The request body; a number is kept as the text json.dumps writes for it.
_build_payload(model, messages, temperature, max_tokens, top_p) ==
    LET base == [k \in {"model", "messages", "stream", "stream_options"} |->
                    CASE k = "model" -> model
                      [] k = "messages" -> messages
                      [] k = "stream" -> "true"
                      [] k = "stream_options" -> "include_usage"]
        opt(d, k, v) == IF v # None THEN (k :> v[1]) @@ d ELSE d
    IN  opt(opt(opt(base, "temperature", temperature), "max_tokens", max_tokens), "top_p", top_p)

\* the keys of a request body in sorted order
SortedKeys == <<"max_tokens", "messages", "model", "stream", "stream_options", "temperature", "top_p">>

\* json.dumps(payload, sort_keys=True), as a token sequence
RECURSIVE DumpKeys(_, _)
DumpKeys(payload, keys) ==
    IF keys = <<>> THEN <<>>
    ELSE (IF Head(keys) \in DOMAIN payload THEN <<Head(keys), payload[Head(keys)]>> ELSE <<>>)
         \o DumpKeys(payload, Tail(keys))

JsonDumpsSorted(payload) == DumpKeys(payload, SortedKeys)

\* model.replace("/", "_").replace(":", "_") is a table on the modelled ids
SafeModel(model) == IF model \in {"org/model:v1", "org:model/v1"} THEN "org_model_v1" ELSE model

RECURSIVE JoinNoSep(_)
JoinNoSep(evs) == IF evs = <<>> THEN <<>> ELSE Tok(Head(evs)) \o JoinNoSep(Tail(evs))

_write_receipt_nosep(ts, model, payload, evs) ==
    LET raw_text == JoinNoSep(evs)
        events_hash == SubSeq(_hash(raw_text), 1, 16)
    IN  [path |-> <<ts, SafeModel(model), events_hash>>,
         receipt |-> [model |-> model,
                      timestamp |-> ts,
                      events_hash |-> _hash(raw_text),
                      payload_hash |-> _hash(JsonDumpsSorted(payload)),
                      event_count |-> Len(evs),
                      raw_events |-> evs]]

_write_receipt_prefix(ts, model, payload, evs) ==
    LET raw_text == Join(evs)
        events_hash == SubSeq(_hash(raw_text), 1, 16)
    IN  [path |-> <<ts, SafeModel(model), events_hash>>,
         receipt |-> [model |-> model,
                      timestamp |-> ts,
                      events_hash |-> events_hash,
                      payload_hash |-> _hash(JsonDumpsSorted(payload)),
                      event_count |-> Len(evs),
                      raw_events |-> evs]]

\* The receipt _write_receipt builds and the path it writes it to.
_write_receipt(ts, model, payload, evs) ==
    LET raw_text == Join(evs)
        events_hash == SubSeq(_hash(raw_text), 1, 16)
    IN  [path |-> <<ts, SafeModel(model), events_hash>>,
         receipt |-> [model |-> model,
                      timestamp |-> ts,
                      events_hash |-> _hash(raw_text),
                      payload_hash |-> _hash(JsonDumpsSorted(payload)),
                      event_count |-> Len(evs),
                      raw_events |-> evs]]

\* ------------------------------------------------------------------------
\* Receipt verification (verify_receipt.py)
\* ------------------------------------------------------------------------
PASS == "PASS"
FAIL == "FAIL"
SKIP == "SKIP"

\* the detail string of a check: its fixed words, the hash prefixes and the
\* numbers formatted into it
Detail(msg, hashes, nums) == [msg |-> msg, hashes |-> hashes, nums |-> nums]

Check(name, status, detail) == [name |-> name, status |-> status, detail |-> detail]

\* data.get(key, default) on a loaded receipt
DataGet(data, key, default) == IF key \in DOMAIN data THEN data[key] ELSE default

\* s[:16]
Prefix16(s) == SubSeq(s, 1, IF Len(s) < 16 THEN Len(s) ELSE 16)

IsHexChar(c) == \E i \in 1..Len(HexChars) : HexChars[i] = c

EventsHashCheck_shape(data) ==
    LET stored_events_hash == DataGet(data, "events_hash", <<>>)
    IN  IF stored_events_hash = <<>>
        THEN Check("events_hash", SKIP, Detail("field missing in receipt", <<>>, <<>>))
        ELSE IF Len(stored_events_hash) = HexLen
                /\ \A i \in 1..Len(stored_events_hash) : IsHexChar(stored_events_hash[i])
        THEN Check("events_hash", PASS, Detail("sha256 matches", <<Prefix16(stored_events_hash)>>, <<>>))
        ELSE Check("events_hash", FAIL, Detail("MISMATCH", <<Prefix16(stored_events_hash)>>, <<>>))

EventsHashCheck_nosep(data) ==
    LET raw == DataGet(data, "raw_events", <<>>)
        stored_events_hash == DataGet(data, "events_hash", <<>>)
        derived_events_hash == _hash(JoinNoSep(raw))
    IN  IF stored_events_hash = <<>>
        THEN Check("events_hash", SKIP, Detail("field missing in receipt", <<>>, <<>>))
        ELSE IF derived_events_hash = stored_events_hash
        THEN Check("events_hash", PASS, Detail("sha256 matches", <<Prefix16(stored_events_hash)>>, <<>>))
        ELSE Check("events_hash", FAIL,
                   Detail("MISMATCH", <<Prefix16(stored_events_hash), Prefix16(derived_events_hash)>>, <<>>))

\* Check 1
EventsHashCheck(data) ==
    LET raw == DataGet(data, "raw_events", <<>>)
        stored_events_hash == DataGet(data, "events_hash", <<>>)
        derived_events_hash == _hash(Join(raw))
    IN  IF stored_events_hash = <<>>
        THEN Check("events_hash", SKIP, Detail("field missing in receipt", <<>>, <<>>))
        ELSE IF derived_events_hash = stored_events_hash
        THEN Check("events_hash", PASS, Detail("sha256 matches", <<Prefix16(stored_events_hash)>>, <<>>))
        ELSE Check("events_hash", FAIL,
                   Detail("MISMATCH", <<Prefix16(stored_events_hash), Prefix16(derived_events_hash)>>, <<>>))

PayloadHashCheck_missingfails(data) ==
    LET stored_payload_hash == DataGet(data, "payload_hash", <<>>)
    IN  IF Len(stored_payload_hash) = HexLen
           /\ \A i \in 1..Len(stored_payload_hash) : IsHexChar(stored_payload_hash[i])
        THEN Check("payload_hash", PASS,
                   Detail("present and well-formed", <<Prefix16(stored_payload_hash)>>, <<>>))
        ELSE Check("payload_hash", FAIL, Detail("malformed hash value", <<stored_payload_hash>>, <<>>))

\* Check 2
PayloadHashCheck(data) ==
    LET stored_payload_hash == DataGet(data, "payload_hash", <<>>)
    IN  IF stored_payload_hash = <<>>
        THEN Check("payload_hash", SKIP, Detail("field missing in receipt", <<>>, <<>>))
        ELSE IF Len(stored_payload_hash) = HexLen
                /\ \A i \in 1..Len(stored_payload_hash) : IsHexChar(stored_payload_hash[i])
        THEN Check("payload_hash", PASS,
                   Detail("present and well-formed", <<Prefix16(stored_payload_hash)>>, <<>>))
        ELSE Check("payload_hash", FAIL, Detail("malformed hash value", <<stored_payload_hash>>, <<>>))

\* The parsing loop of check 3: parsed_events, with None for the sentinel
\* and for a frame that does not parse.
ParsedEvents(raw) ==
    [i \in 1..Len(raw) |->
        IF StripText(raw[i]) = DONE THEN None
        ELSE IF JsonLoads(raw[i]).ok THEN Some(JsonLoads(raw[i]).obj) ELSE None]

ParseErrors_sentinel(raw) == Cardinality({i \in 1..Len(raw) : ~JsonLoads(raw[i]).ok})

ParseErrors(raw) ==
    Cardinality({i \in 1..Len(raw) : StripText(raw[i]) # DONE /\ ~JsonLoads(raw[i]).ok})

\* Check 3
EventParsingCheck(raw) ==
    LET event_count == Len(raw)
        parse_errors == ParseErrors(raw)
        valid_count == event_count - parse_errors
    IN  IF parse_errors = 0
        THEN Check("event parsing", PASS, Detail("valid JSON", <<>>, <<valid_count, event_count>>))
        ELSE Check("event parsing", FAIL, Detail("parse error(s)", <<>>, <<parse_errors, event_count>>))

RECURSIVE VerifyChoices_withreasoning(_, _, _)
VerifyChoices_withreasoning(choices, content, deltas) ==
    IF choices = <<>> THEN [ok |-> TRUE, content |-> content, deltas |-> deltas]
    ELSE LET choice == Head(choices)
         IN  IF ~IsDict(choice) THEN [ok |-> FALSE]
             ELSE LET delta == Or(Get(choice, "delta", PyNull), EmptyDict)
                  IN  IF ~IsDict(delta) THEN [ok |-> FALSE]
                      ELSE LET c == Or(Get(delta, "content", PyNull), EmptyStr)
                               r == Or(Get(delta, "reasoning_content", PyNull), EmptyStr)
                           IN  IF c.t # "str" \/ r.t # "str" THEN [ok |-> FALSE]
                               ELSE VerifyChoices_withreasoning(Tail(choices), content \o c.s \o r.s,
                                        deltas + (IF Truthy(Get(delta, "content", PyNull)) THEN 1 ELSE 0))

\* The inner loop of check 4 over the choices of one parsed frame.
RECURSIVE VerifyChoices(_, _, _)
VerifyChoices(choices, content, deltas) ==
    IF choices = <<>> THEN [ok |-> TRUE, content |-> content, deltas |-> deltas]
    ELSE LET choice == Head(choices)
         IN  IF ~IsDict(choice) THEN [ok |-> FALSE]
             ELSE LET delta == Or(Get(choice, "delta", PyNull), EmptyDict)
                  IN  IF ~IsDict(delta) THEN [ok |-> FALSE]
                      ELSE LET c == Or(Get(delta, "content", PyNull), EmptyStr)
                           IN  IF c.t # "str" THEN [ok |-> FALSE]
                               ELSE VerifyChoices(Tail(choices), content \o c.s,
                                        deltas + (IF Truthy(Get(delta, "content", PyNull)) THEN 1 ELSE 0))

RECURSIVE ReconstructContent_stop(_, _, _)
ReconstructContent_stop(parsed, content, deltas) ==
    IF parsed = <<>> \/ Head(parsed) = None THEN [ok |-> TRUE, content |-> content, deltas |-> deltas]
    ELSE LET obj == Head(parsed)[1]
         IN  IF ~IsDict(obj) THEN [ok |-> FALSE]
             ELSE LET it == IterItems(Get(obj, "choices", PyList(<<>>)))
                  IN  IF ~it.ok THEN [ok |-> FALSE]
                      ELSE LET r == VerifyChoices(it.items, content, deltas)
                           IN  IF ~r.ok THEN [ok |-> FALSE]
                               ELSE ReconstructContent_stop(Tail(parsed), r.content, r.deltas)

\* The outer loop of check 4 over parsed_events.
RECURSIVE ReconstructContent(_, _, _)
ReconstructContent(parsed, content, deltas) ==
    IF parsed = <<>> THEN [ok |-> TRUE, content |-> content, deltas |-> deltas]
    ELSE IF Head(parsed) = None THEN ReconstructContent(Tail(parsed), content, deltas)
    ELSE LET obj == Head(parsed)[1]
         IN  IF ~IsDict(obj) THEN [ok |-> FALSE]
             ELSE LET it == IterItems(Get(obj, "choices", PyList(<<>>)))
                  IN  IF ~it.ok THEN [ok |-> FALSE]
                      ELSE LET r == VerifyChoices(it.items, content, deltas)
                           IN  IF ~r.ok THEN [ok |-> FALSE]
                               ELSE ReconstructContent(Tail(parsed), r.content, r.deltas)

HasCounts(ev) ==
    /\ ev # None
    /\ IsDict(ev[1])
    /\ IsDict(Or(Get(ev[1], "usage", PyNull), EmptyDict))
    /\ \/ Truthy(Get(Or(Get(ev[1], "usage", PyNull), EmptyDict), "prompt_tokens", PyInt(0)))
       \/ Truthy(Get(Or(Get(ev[1], "usage", PyNull), EmptyDict), "completion_tokens", PyInt(0)))

ScanUsage_forward(parsed, i) ==
    LET found == {k \in 1..i : HasCounts(parsed[k])}
    IN  IF found = {} THEN [ok |-> TRUE, prompt_tokens |-> 0, completion_tokens |-> 0]
        ELSE LET k == CHOOSE j \in found : \A h \in found : j <= h
                 usage == Get(parsed[k][1], "usage", PyNull)
             IN  [ok |-> TRUE,
                  prompt_tokens |-> Get(usage, "prompt_tokens", PyInt(0)).n,
                  completion_tokens |-> Get(usage, "completion_tokens", PyInt(0)).n]

\* The loop of check 5 over reversed(parsed_events): i runs from the last
\* frame down.
RECURSIVE ScanUsage(_, _)
ScanUsage(parsed, i) ==
    IF i = 0 THEN [ok |-> TRUE, prompt_tokens |-> 0, completion_tokens |-> 0]
    ELSE IF parsed[i] = None THEN ScanUsage(parsed, i - 1)
    ELSE LET obj == parsed[i][1]
         IN  IF ~IsDict(obj) THEN [ok |-> FALSE]
             ELSE LET usage == Or(Get(obj, "usage", PyNull), EmptyDict)
                  IN  IF ~IsDict(usage) THEN [ok |-> FALSE]
                      ELSE LET pt == Get(usage, "prompt_tokens", PyInt(0))
                               ct == Get(usage, "completion_tokens", PyInt(0))
                           IN  IF Truthy(pt) \/ Truthy(ct)
                               THEN [ok |-> TRUE, prompt_tokens |-> pt.n, completion_tokens |-> ct.n]
                               ELSE ScanUsage(parsed, i - 1)

EventCount_stored(data, raw) == DataGet(data, "event_count", Len(raw))

\* result.event_count = len(raw_events)
EventCount(data, raw) == Len(raw)

AppendCheck_stop(checks, c) ==
    IF \E i \in 1..Len(checks) : checks[i].status = FAIL THEN checks ELSE Append(checks, c)

\* result.checks.append(Check(...))
AppendCheck(checks, c) == Append(checks, c)

\* verify_receipt(data, receipt_path); raised = TRUE stands for the
\* AttributeError or TypeError that leaves the function.
verify_receipt(data, receipt_path) ==
    LET raw == DataGet(data, "raw_events", <<>>)
        parsed == ParsedEvents(raw)
        c == ReconstructContent(parsed, <<>>, 0)
        u == ScanUsage(parsed, Len(parsed))
    IN  IF ~c.ok \/ ~u.ok THEN [raised |-> TRUE]
        ELSE [raised |-> FALSE,
              receipt_path |-> receipt_path,
              model |-> DataGet(data, "model", "unknown"),
              event_count |-> EventCount(data, raw),
              prompt_tokens |-> u.prompt_tokens,
              completion_tokens |-> u.completion_tokens,
              content_chars |-> Len(c.content),
              content_deltas |-> c.deltas,
              checks |->
                  AppendCheck(AppendCheck(AppendCheck(AppendCheck(AppendCheck(<<>>,
                      EventsHashCheck(data)),
                      PayloadHashCheck(data)),
                      EventParsingCheck(raw)),
                      IF Len(c.content) > 0
                      THEN Check("content", PASS, Detail("chars reconstructed", <<>>, <<c.deltas, Len(c.content)>>))
                      ELSE Check("content", FAIL, Detail("no content tokens found in events", <<>>, <<>>))),
                      IF u.prompt_tokens > 0 \/ u.completion_tokens > 0
                      THEN Check("usage", PASS, Detail("tokens", <<>>, <<u.prompt_tokens, u.completion_tokens>>))
                      ELSE Check("usage", SKIP, Detail("no usage block found", <<>>, <<>>)))]

Verified_allpass(r) == \A i \in 1..Len(r.checks) : r.checks[i].status = PASS

\* VerifyResult.verified
Verified(r) == \A i \in 1..Len(r.checks) : r.checks[i].status # FAIL

\* list.insert(i, x) for 0 <= i <= len
Insert(l, i, x) == SubSeq(l, 1, i) \o <<x>> \o SubSeq(l, i + 1, Len(l))

Tampered_append(data) ==
    ("raw_events" :> Append(DataGet(data, "raw_events", <<>>), fake_event)) @@ data

Tampered_noinsert(data) == ("raw_events" :> DataGet(data, "raw_events", <<>>)) @@ data

Tampered_replace(data) ==
    LET raw == DataGet(data, "raw_events", <<>>)
        mid == Len(raw) \div 2
    IN  ("raw_events" :> SubSeq(raw, 1, mid) \o <<fake_event>> \o SubSeq(raw, mid + 2, Len(raw))) @@ data

\* the tampered copy the tamper simulation of main builds
Tampered(data) ==
    LET raw == DataGet(data, "raw_events", <<>>)
        mid == Len(raw) \div 2
    IN  ("raw_events" :> Insert(raw, mid, fake_event)) @@ data

\* ------------------------------------------------------------------------
\* State
\* ------------------------------------------------------------------------
VARIABLES
    pc,               \* position of stream_chat
    clock,            \* time.monotonic(), in milliseconds
    t_start,
    last_chunk_time,
    raw_events,
    result,           \* the StreamResult
    save_receipt,     \* argument of stream_chat
    args,             \* model, messages and sampling arguments of stream_chat
    exit_by,          \* how the consumption loop was left
    nlines,           \* lines pulled from resp.iter_lines() so far
    files,            \* receipt_dir: filename -> receipt
    vpc,              \* position of main of verify_receipt.py
    data,             \* the loaded receipt
    tamper,           \* args.tamper
    vresult,          \* result of the normal verification
    tampered_result,  \* result of the tamper simulation
    input,            \* the lines given to a drained _iter_sse_data
    dpos,             \* how many of them it has read
    yielded,          \* what the drained _iter_sse_data has yielded
    payload,          \* the request body stream_chat builds
    second_result,    \* result of verify_receipt called again on the same receipt
    text,             \* the response text call_ambient accumulates
    bench_pc,         \* position of run of ambient_client/app/runner.py
    bench_enabled,    \* cfg.bench_enabled
    run_specs,        \* specs, the list iter_run_specs returns
    run_pos,          \* how many of them the loop of run has taken
    recorder,         \* state of BenchRecorder._file
    bench_file,       \* content of the file cfg.bench_output on disk
    bench_buf         \* text written to BenchRecorder._file and not yet flushed

svars == <<pc, clock, t_start, last_chunk_time, raw_events, result, save_receipt, args, exit_by, nlines>>
vvars == <<vpc, data, tamper, vresult, tampered_result>>
dvars == <<input, dpos, yielded>>
hvars == <<payload, second_result, text>>
bvars == <<bench_pc, bench_enabled, run_specs, run_pos, recorder, bench_file, bench_buf>>
vars == <<pc, clock, t_start, last_chunk_time, raw_events, result, save_receipt, args, exit_by, nlines,
          files, vpc, data, tamper, vresult, tampered_result, input, dpos, yielded,
          payload, second_result, text,
          bench_pc, bench_enabled, run_specs, run_pos, recorder, bench_file, bench_buf>>

stall_threshold_ms == 2000

\* time that passes between two observations of the clock
Gaps == {1, stall_threshold_ms}

\* time that passes while connecting, and before the end of input or a
\* transport failure is seen
ShortGaps == {1}

\* requests.RequestException descriptions
RequestExceptions == {"ConnectionError", "ReadTimeout", "HTTPError: 500 Server Error"}
StreamExceptions == {"ChunkedEncodingError"}

\* the payloads a server can put on a data line
Payloads == {DONE, P_NotJson, P_Hi, P_There, P_U50, P_U00, P_U127, P_List}

\* the raw lines resp.iter_lines() can deliver
DataLines == {<<DataPrefix, WS, p>> : p \in Payloads}
             \cup {<<WS, DataPrefix, P_Hi, WS>>}
NonDataLines == {<<>>, <<": keep-alive">>, <<"event: message">>, <<WS>>,
                 <<InvalidUtf8, DataPrefix, WS, P_Hi>>}
Lines == DataLines \cup NonDataLines

\* the arguments stream_chat is called with
StreamArgs ==
    [model : {"org/model:v1"}, messages : {"user-prompt"},
     temperature : {Some("0")}, max_tokens : {Some("256")}, top_p : {None}]

\* int(time.time()) at the moment a receipt is written
Timestamps == {1700000000}

StreamResult_zero ==
    [text |-> <<>>, reasoning |-> <<>>, ttfb_ms |-> Some(0), ttc_ms |-> None,
     prompt_tokens |-> 0, completion_tokens |-> 0, stall_count |-> 0,
     parse_errors |-> 0, error |-> None, receipt_path |-> None]

StreamResult ==
    [text |-> <<>>, reasoning |-> <<>>, ttfb_ms |-> None, ttc_ms |-> None,
     prompt_tokens |-> 0, completion_tokens |-> 0, stall_count |-> 0,
     parse_errors |-> 0, error |-> None, receipt_path |-> None]

Init ==
    /\ pc = "post"
    /\ clock \in {7}
    /\ t_start = clock
    /\ last_chunk_time = clock
    /\ raw_events = <<>>
    /\ result = StreamResult
    /\ save_receipt \in BOOLEAN
    /\ args \in StreamArgs
    /\ exit_by = "none"
    /\ nlines = 0
    /\ files = <<>>
    /\ vpc = "start"
    /\ data = <<>>
    /\ tamper = FALSE
    /\ vresult = <<>>
    /\ tampered_result = <<>>
    /\ input = <<>>
    /\ dpos = 0
    /\ yielded = <<>>
    /\ payload = _build_payload(args.model, args.messages, args.temperature, args.max_tokens, args.top_p)
    /\ second_result = <<>>
    /\ text = <<>>
    /\ bench_pc = "idle"
    /\ bench_enabled = FALSE
    /\ run_specs = <<>>
    /\ run_pos = 0
    /\ recorder = "none"
    /\ bench_file = <<>>
    /\ bench_buf = <<>>

\* requests.post(...) and resp.raise_for_status()
Post ==
    /\ pc = "post"
    /\ \E d \in ShortGaps : clock' = clock + d
    /\ \/ /\ pc' = "stream"
          /\ UNCHANGED <<result, exit_by>>
       \/ \E exc \in RequestExceptions :
            /\ result' = [result EXCEPT !.error = Some(exc)]
            /\ exit_by' = "error"
            /\ pc' = "finalize"
    /\ UNCHANGED <<t_start, last_chunk_time, raw_events, save_receipt, args, nlines, files, vvars, dvars, hvars, bvars>>

IsSentinel_never(event_data) == FALSE

\* event_data.strip() == "[DONE]"
IsSentinel(event_data) == StripText(event_data) = DONE

UpdateCount_overwrite(old, v) == IF v.t = "int" THEN v.n ELSE old

\* if usage.get(field): result.field = usage[field]
UpdateCount(old, v) == IF Truthy(v) THEN v.n ELSE old

CountStall_nobaseline(r, gap_ms) ==
    IF gap_ms > stall_threshold_ms THEN [r EXCEPT !.stall_count = @ + 1] ELSE r

\* if gap_ms > stall_threshold_ms and result.ttfb_ms is not None:
\*     result.stall_count += 1
CountStall(r, gap_ms) ==
    IF gap_ms > stall_threshold_ms /\ r.ttfb_ms # None
    THEN [r EXCEPT !.stall_count = @ + 1] ELSE r

SetTtfb_always(r, now) == [r EXCEPT !.ttfb_ms = Some(now - t_start)]

\* if result.ttfb_ms is None: result.ttfb_ms = (now - t_start) * 1000
SetTtfb(r, now) == IF r.ttfb_ms = None THEN [r EXCEPT !.ttfb_ms = Some(now - t_start)] ELSE r

RecordFrame_parsed(evs, event_data) ==
    IF event_data = DONE \/ JsonLoads(event_data).ok THEN Append(evs, event_data) ELSE evs

\* raw_events.append(event_data)
RecordFrame(evs, event_data) == Append(evs, event_data)

\* Body of the for loop for one decoded frame, at time now.
Consume(event_data, now) ==
    LET gap_ms == now - last_chunk_time
        r1 == CountStall(result, gap_ms)
        r2 == SetTtfb(r1, now)
        parsed == JsonLoads(event_data)
        parts == _extract_content_parts(parsed.obj)
        r3 == [r2 EXCEPT !.text = @ \o parts.content, !.reasoning = @ \o parts.reasoning]
        usage == UsageOf(parsed.obj)
        r4 == [r3 EXCEPT !.prompt_tokens = UpdateCount(@, usage.prompt_tokens)]
        r5 == [r4 EXCEPT !.completion_tokens = UpdateCount(@, usage.completion_tokens)]
    IN  /\ last_chunk_time' = now
        /\ raw_events' = RecordFrame(raw_events, event_data)
        /\ IF IsSentinel(event_data)
           THEN /\ result' = r2
                /\ exit_by' = "sentinel"
                /\ pc' = "finalize"
           ELSE IF ~parsed.ok
           THEN /\ result' = [r2 EXCEPT !.parse_errors = @ + 1]
                /\ UNCHANGED <<pc, exit_by>>
           ELSE IF ~parts.ok
           THEN /\ result' = r2
                /\ exit_by' = "exception"
                /\ pc' = "raised"
           ELSE IF ~usage.ok
           THEN /\ result' = r3
                /\ exit_by' = "exception"
                /\ pc' = "raised"
           ELSE /\ result' = r5
                /\ UNCHANGED <<pc, exit_by>>

ReadLine_skipresets ==
    /\ pc = "stream"
    /\ nlines < MaxLines
    /\ nlines' = nlines + 1
    /\ \E d \in Gaps, line \in Lines :
        /\ clock' = clock + d
        /\ LET y == IterSseLine(line)
           IN  IF y = <<>>
               THEN /\ last_chunk_time' = clock'
                    /\ UNCHANGED <<pc, raw_events, result, exit_by>>
               ELSE Consume(y[1], clock')
    /\ UNCHANGED <<t_start, save_receipt, args, files, vvars, dvars, hvars, bvars>>

\* resp.iter_lines() delivers one more line; _iter_sse_data skips it or
\* yields its payload to the loop body.
ReadLine ==
    /\ pc = "stream"
    /\ nlines < MaxLines
    /\ nlines' = nlines + 1
    /\ \E d \in Gaps, line \in Lines :
        /\ clock' = clock + d
        /\ LET y == IterSseLine(line)
           IN  IF y = <<>>
               THEN UNCHANGED <<pc, last_chunk_time, raw_events, result, exit_by>>
               ELSE Consume(y[1], clock')
    /\ UNCHANGED <<t_start, save_receipt, args, files, vvars, dvars, hvars, bvars>>

\* resp.iter_lines() is exhausted
EndOfInput ==
    /\ pc = "stream"
    /\ \E d \in ShortGaps : clock' = clock + d
    /\ exit_by' = "eof"
    /\ pc' = "finalize"
    /\ UNCHANGED <<t_start, last_chunk_time, raw_events, result, save_receipt, args, nlines, files, vvars, dvars, hvars, bvars>>

TransportFail_reset ==
    /\ pc = "stream"
    /\ \E d \in ShortGaps : clock' = clock + d
    /\ \E exc \in StreamExceptions : result' = [StreamResult EXCEPT !.error = Some(exc)]
    /\ exit_by' = "error"
    /\ pc' = "finalize"
    /\ UNCHANGED <<t_start, last_chunk_time, raw_events, save_receipt, args, nlines, files, vvars, dvars, hvars, bvars>>

\* resp.iter_lines() raises a requests.RequestException
TransportFail ==
    /\ pc = "stream"
    /\ \E d \in ShortGaps : clock' = clock + d
    /\ \E exc \in StreamExceptions : result' = [result EXCEPT !.error = Some(exc)]
    /\ exit_by' = "error"
    /\ pc' = "finalize"
    /\ UNCHANGED <<t_start, last_chunk_time, raw_events, save_receipt, args, nlines, files, vvars, dvars, hvars, bvars>>

TtcAtExit_in_try(r) == IF r.error = None THEN [r EXCEPT !.ttc_ms = Some(clock - t_start)] ELSE r

\* result.ttc_ms = (time.monotonic() - t_start) * 1000
TtcAtExit(r) == [r EXCEPT !.ttc_ms = Some(clock - t_start)]

WritesReceipt_unguarded(save, evs) == save

WritesReceipt_onsuccess(save, evs) == save /\ evs # <<>> /\ result.error = None

\* if save_receipt and raw_events:
WritesReceipt(save, evs) == save /\ evs # <<>>

\* result.ttc_ms, the optional receipt and the return of stream_chat
Finalize ==
    /\ pc = "finalize"
    /\ LET r == TtcAtExit(result)
       IN  IF WritesReceipt(save_receipt, raw_events)
           THEN \E ts \in Timestamps :
                  LET w == _write_receipt(ts, args.model, payload, raw_events)
                  IN  /\ files' = (w.path :> w.receipt) @@ files
                      /\ result' = [r EXCEPT !.receipt_path = Some(w.path)]
           ELSE /\ result' = r
                /\ UNCHANGED files
    /\ UNCHANGED <<vvars, dvars, hvars, bvars>>
    /\ pc' = "returned"
    /\ UNCHANGED <<clock, t_start, last_chunk_time, raw_events, save_receipt, args, exit_by, nlines>>

\* ------------------------------------------------------------------------
\* main of verify_receipt.py
\* ------------------------------------------------------------------------
\* the receipt path is resolved and _load_receipt reads the file
LoadReceipt ==
    /\ pc \in {"returned", "idle"}
    /\ vpc = "start"
    /\ \E path \in DOMAIN files : data' = files[path]
    /\ vpc' = "loaded"
    /\ UNCHANGED <<svars, files, tamper, vresult, tampered_result, dvars, hvars, bvars>>

VerifyNormal_consumes ==
    /\ vpc = "loaded"
    /\ LET r == verify_receipt(data, "receipt_path")
       IN  IF r.raised
           THEN /\ vpc' = "raised"
                /\ UNCHANGED <<vresult, tamper, data>>
           ELSE /\ vresult' = r
                /\ data' = ("raw_events" :> <<>>) @@ data
                /\ \E t \in BOOLEAN :
                     /\ tamper' = t
                     /\ vpc' = IF t THEN "tamper" ELSE "exit"
    /\ UNCHANGED <<svars, files, tampered_result, dvars, hvars, bvars>>

\* normal verification
VerifyNormal ==
    /\ vpc = "loaded"
    /\ LET r == verify_receipt(data, "receipt_path")
       IN  IF r.raised
           THEN /\ vpc' = "raised"
                /\ UNCHANGED <<vresult, tamper>>
           ELSE /\ vresult' = r
                /\ \E t \in BOOLEAN :
                     /\ tamper' = t
                     /\ vpc' = IF t THEN "tamper" ELSE "exit"
    /\ UNCHANGED <<svars, files, data, tampered_result, dvars, hvars, bvars>>

\* tamper simulation
TamperSimulation ==
    /\ vpc = "tamper"
    /\ LET r == verify_receipt(Tampered(data), "receipt_path [tampered]")
       IN  IF r.raised
           THEN /\ vpc' = "raised"
                /\ UNCHANGED tampered_result
           ELSE /\ tampered_result' = r
                /\ vpc' = "exit"
    /\ UNCHANGED <<svars, files, data, tamper, vresult, dvars, hvars, bvars>>

\* ------------------------------------------------------------------------
\* _iter_sse_data drained by a caller that reads every frame
\* ------------------------------------------------------------------------
DecoderNext ==
    /\ dpos < Len(input)
    /\ yielded' = yielded \o IterSseLine(input[dpos + 1])
    /\ dpos' = dpos + 1
    /\ UNCHANGED <<svars, files, vvars, input, hvars, bvars>>

\* ------------------------------------------------------------------------
\* first_inference.py: call_ambient, save_receipt and main
\* ------------------------------------------------------------------------
MODEL == "zai-org/GLM-4.6"

\* args.prompt
Prompt == "user-prompt"

\* bytes.decode("utf-8") with the default errors="strict": ok = FALSE
\* stands for UnicodeDecodeError
DecodeStrict(line) ==
    IF \E i \in 1..Len(line) : line[i] = InvalidUtf8 THEN [ok |-> FALSE]
    ELSE [ok |-> TRUE, line |-> line]

\* The loop over the choices of one frame in call_ambient; ok = FALSE
\* stands for the AttributeError of .get on a non-dict or the TypeError of
\* str += non-str.
RECURSIVE CallAmbientChoices(_, _)
CallAmbientChoices(choices, acc) ==
    IF choices = <<>> THEN [ok |-> TRUE, text |-> acc]
    ELSE LET choice == Head(choices)
         IN  IF ~IsDict(choice) THEN [ok |-> FALSE]
             ELSE LET delta == Or(Get(choice, "delta", PyNull), EmptyDict)
                  IN  IF ~IsDict(delta) THEN [ok |-> FALSE]
                      ELSE LET content == Or(Get(delta, "content", PyNull), EmptyStr)
                           IN  IF content.t # "str" THEN [ok |-> FALSE]
                               ELSE CallAmbientChoices(Tail(choices), acc \o content.s)

\* The receipt save_receipt of first_inference.py builds and the path it
\* writes it to.
first_inference_save_receipt(ts, prompt, evs) ==
    LET raw_text == Join(evs)
        events_hash == _hash(raw_text)
    IN  [path |-> <<ts, "zai-org_GLM-4.6", SubSeq(events_hash, 1, 16)>>,
         receipt |-> [model |-> MODEL,
                      timestamp |-> ts,
                      events_hash |-> events_hash,
                      payload_hash |-> _hash(<<"model", MODEL, "prompt", prompt>>),
                      event_count |-> Len(evs),
                      raw_events |-> evs]]

\* main of first_inference.py calls call_ambient
InitFirst ==
    /\ pc = "call_ambient"
    /\ clock = 0
    /\ t_start = 0
    /\ last_chunk_time = 0
    /\ raw_events = <<>>
    /\ result = StreamResult
    /\ save_receipt = FALSE
    /\ args \in StreamArgs
    /\ exit_by = "none"
    /\ nlines = 0
    /\ files = <<>>
    /\ vpc = "start"
    /\ data = <<>>
    /\ tamper = FALSE
    /\ vresult = <<>>
    /\ tampered_result = <<>>
    /\ input = <<>>
    /\ dpos = 0
    /\ yielded = <<>>
    /\ payload = <<>>
    /\ second_result = <<>>
    /\ text = <<>>
    /\ bench_pc = "idle"
    /\ bench_enabled = FALSE
    /\ run_specs = <<>>
    /\ run_pos = 0
    /\ recorder = "none"
    /\ bench_file = <<>>
    /\ bench_buf = <<>>

\* requests.post(...) and resp.raise_for_status() in call_ambient: nothing
\* catches a requests exception
FirstPost ==
    /\ pc = "call_ambient"
    /\ \/ /\ pc' = "iter_lines"
          /\ UNCHANGED exit_by
       \/ /\ pc' = "raised"
          /\ exit_by' = "error"
    /\ UNCHANGED <<clock, t_start, last_chunk_time, raw_events, result, save_receipt, args, nlines,
                   files, vvars, dvars, payload, second_result, text, bvars>>

\* Body of the loop of call_ambient for one line of resp.iter_lines()
FirstReadLine ==
    /\ pc = "iter_lines"
    /\ nlines < MaxLines
    /\ nlines' = nlines + 1
    /\ \E raw_line \in Lines :
        LET dec == DecodeStrict(raw_line)
            line == Strip(dec.line)
            frame == TextOf(Strip(Tail(line)))
            parsed == JsonLoads(frame)
            it == IterItems(Get(parsed.obj, "choices", PyList(<<>>)))
            r == CallAmbientChoices(it.items, text)
        IN  IF ~dec.ok
            THEN /\ pc' = "raised"
                 /\ exit_by' = "decode"
                 /\ UNCHANGED <<raw_events, text>>
            ELSE IF ~StartsWithData(line)
            THEN UNCHANGED <<pc, exit_by, raw_events, text>>
            ELSE /\ raw_events' = Append(raw_events, frame)
                 /\ IF frame = DONE
                    THEN /\ pc' = "main"
                         /\ exit_by' = "sentinel"
                         /\ UNCHANGED text
                    ELSE IF ~parsed.ok
                    THEN UNCHANGED <<pc, exit_by, text>>
                    ELSE IF ~IsDict(parsed.obj) \/ ~it.ok \/ ~r.ok
                    THEN /\ pc' = "raised"
                         /\ exit_by' = "exception"
                         /\ UNCHANGED text
                    ELSE /\ text' = r.text
                         /\ UNCHANGED <<pc, exit_by>>
    /\ UNCHANGED <<clock, t_start, last_chunk_time, result, save_receipt, args,
                   files, vvars, dvars, payload, second_result, bvars>>

\* resp.iter_lines() is exhausted and call_ambient returns
FirstEndOfInput ==
    /\ pc = "iter_lines"
    /\ pc' = "main"
    /\ exit_by' = "eof"
    /\ UNCHANGED <<clock, t_start, last_chunk_time, raw_events, result, save_receipt, args, nlines,
                   files, vvars, dvars, payload, second_result, text, bvars>>

\* main of first_inference.py after call_ambient has returned
FirstMain ==
    /\ pc = "main"
    /\ IF text = <<>>
       THEN UNCHANGED files
       ELSE \E ts \in Timestamps :
              LET w == first_inference_save_receipt(ts, Prompt, raw_events)
              IN  files' = (w.path :> w.receipt) @@ files
    /\ pc' = "exit"
    /\ UNCHANGED <<clock, t_start, last_chunk_time, raw_events, result, save_receipt, args, exit_by,
                   nlines, vvars, dvars, payload, second_result, text, bvars>>

\* ------------------------------------------------------------------------
\* Specifications
\* ------------------------------------------------------------------------
\* a streaming session, then the verification of the receipt it wrote
Next == Post \/ ReadLine \/ EndOfInput \/ TransportFail \/ Finalize
        \/ LoadReceipt \/ VerifyNormal \/ TamperSimulation

Spec == Init /\ [][Next]_vars

\* Receipts found on disk: written by any version of the generator, with
\* fields missing or edited.
MaxStored == 2

StoredPayloads == {DONE, P_DoneWS, P_NotJson, P_Empty, P_Hi, P_U127, P_List}

SeqsUpTo(S, n) == UNION {[1..k -> S] : k \in 0..n}

ReceiptKeys == {"model", "timestamp", "events_hash", "payload_hash", "event_count", "raw_events"}

\* the key sets of a stored receipt: all fields, or one field missing
StoredKeySets == {ReceiptKeys} \cup {ReceiptKeys \ {k} : k \in ReceiptKeys}

\* One stored receipt.  ehc says whether the stored events_hash is the
\* digest of the stored frames, the digest of the list with a frame
\* inserted at its midpoint, or the empty string; phc says whether the
\* stored payload_hash is a digest, a digest cut short, a digest with an
\* upper-case character or the empty string; ec is the stored event_count.
StoredReceipt(raw, keys, ehc, phc, ec) ==
    LET good == _hash(<<"model", "org/model:v1">>)
    IN  [field \in keys |->
            CASE field = "model" -> "org/model:v1"
              [] field = "timestamp" -> 1700000000
              [] field = "events_hash" ->
                    (CASE ehc = "match" -> _hash(Join(raw))
                       [] ehc = "other" -> _hash(Join(Insert(raw, Len(raw) \div 2, fake_event)))
                       [] ehc = "empty" -> <<>>)
              [] field = "payload_hash" ->
                    (CASE phc = "good" -> good
                       [] phc = "short" -> SubSeq(good, 1, HexLen - 1)
                       [] phc = "upper" -> [good EXCEPT ![1] = "A"]
                       [] phc = "empty" -> <<>>)
              [] field = "event_count" -> ec
              [] field = "raw_events" -> raw]

OldPath == <<0, "old", <<>>>>

InitVerify ==
    /\ pc = "idle"
    /\ clock = 0
    /\ t_start = 0
    /\ last_chunk_time = 0
    /\ raw_events = <<>>
    /\ result = StreamResult
    /\ save_receipt = FALSE
    /\ args \in StreamArgs
    /\ exit_by = "none"
    /\ nlines = 0
    /\ \E raw \in SeqsUpTo(StoredPayloads, MaxStored), keys \in StoredKeySets,
          ehc \in {"match", "other", "empty"}, phc \in {"good", "short", "upper"} :
         \E ec \in {Len(raw), 99} :
            files = (OldPath :> StoredReceipt(raw, keys, ehc, phc, ec))
    /\ vpc = "start"
    /\ data = <<>>
    /\ tamper = FALSE
    /\ vresult = <<>>
    /\ tampered_result = <<>>
    /\ input = <<>>
    /\ dpos = 0
    /\ yielded = <<>>
    /\ payload = <<>>
    /\ second_result = <<>>
    /\ text = <<>>
    /\ bench_pc = "idle"
    /\ bench_enabled = FALSE
    /\ run_specs = <<>>
    /\ run_pos = 0
    /\ recorder = "none"
    /\ bench_file = <<>>
    /\ bench_buf = <<>>

NextVerify == LoadReceipt \/ VerifyNormal \/ TamperSimulation

SpecVerify == InitVerify /\ [][NextVerify]_vars

\* ------------------------------------------------------------------------
\* verify_receipt.py on receipts whose events_hash matches their frames:
\* frames with content, with reasoning only and with usage blocks
\* ------------------------------------------------------------------------
StoredFrames == {DONE, P_DoneWS, P_NotJson, P_Hi, P_There, P_Think, P_U50, P_U127}

InitStored ==
    /\ pc = "idle"
    /\ clock = 0
    /\ t_start = 0
    /\ last_chunk_time = 0
    /\ raw_events = <<>>
    /\ result = StreamResult
    /\ save_receipt = FALSE
    /\ args \in StreamArgs
    /\ exit_by = "none"
    /\ nlines = 0
    /\ \E raw \in SeqsUpTo(StoredFrames, MaxStored), keys \in {ReceiptKeys, ReceiptKeys \ {"event_count"}},
          phc \in {"good", "short", "upper", "empty"}, ec \in 0..1 :
            files = (OldPath :> StoredReceipt(raw, keys, "match", phc, Len(raw) + ec))
    /\ vpc = "start"
    /\ data = <<>>
    /\ tamper = FALSE
    /\ vresult = <<>>
    /\ tampered_result = <<>>
    /\ input = <<>>
    /\ dpos = 0
    /\ yielded = <<>>
    /\ payload = <<>>
    /\ second_result = <<>>
    /\ text = <<>>
    /\ bench_pc = "idle"
    /\ bench_enabled = FALSE
    /\ run_specs = <<>>
    /\ run_pos = 0
    /\ recorder = "none"
    /\ bench_file = <<>>
    /\ bench_buf = <<>>

SpecStored == InitStored /\ [][NextVerify]_vars

\* the lines a drained decoder is fed
DecoderLines ==
    {<<DataPrefix, WS, DONE>>, <<WS, DataPrefix, DONE, WS>>, <<DataPrefix, WS, P_Hi>>,
     <<DataPrefix>>, <<DataPrefix, WS, InvalidUtf8>>, <<>>, <<": keep-alive">>}

InitDecoder ==
    /\ pc = "idle"
    /\ clock = 0
    /\ t_start = 0
    /\ last_chunk_time = 0
    /\ raw_events = <<>>
    /\ result = StreamResult
    /\ save_receipt = FALSE
    /\ args \in StreamArgs
    /\ exit_by = "none"
    /\ nlines = 0
    /\ files = <<>>
    /\ vpc = "start"
    /\ data = <<>>
    /\ tamper = FALSE
    /\ vresult = <<>>
    /\ tampered_result = <<>>
    /\ input \in SeqsUpTo(DecoderLines, MaxLines)
    /\ dpos = 0
    /\ yielded = <<>>
    /\ payload = <<>>
    /\ second_result = <<>>
    /\ text = <<>>
    /\ bench_pc = "idle"
    /\ bench_enabled = FALSE
    /\ run_specs = <<>>
    /\ run_pos = 0
    /\ recorder = "none"
    /\ bench_file = <<>>
    /\ bench_buf = <<>>

NextDecoder == DecoderNext

SpecDecoder == InitDecoder /\ [][NextDecoder]_vars

\* a run of first_inference.py
NextFirst == FirstPost \/ FirstReadLine \/ FirstEndOfInput \/ FirstMain

SpecFirst == InitFirst /\ [][NextFirst]_vars

\* every program that writes receipts: a stream_chat session and a run of
\* first_inference.py
InitGenerators == Init \/ InitFirst

NextGenerators == Next \/ NextFirst

SpecGenerators == InitGenerators /\ [][NextGenerators]_vars


\* verify_receipt called a second time on the receipt as the first call
\* left it
VerifyAgain ==
    /\ vpc \in {"tamper", "exit"}
    /\ second_result = <<>>
    /\ second_result' = verify_receipt(data, "receipt_path")
    /\ UNCHANGED <<svars, files, vvars, dvars, payload, text, bvars>>

NextVerifyTwice == LoadReceipt \/ VerifyNormal \/ TamperSimulation \/ VerifyAgain

SpecVerifyTwice == InitVerify /\ [][NextVerifyTwice]_vars

\* Independent sessions that call the receipt generator on the same
\* receipt directory, some of them within the same second.
WriterTimestamps == {1700000000, 1700000001}

WriterArgs ==
    [model : {"org/model:v1", "org:model/v1"}, messages : {"user-prompt"},
     temperature : {Some("0")}, max_tokens : {Some("256"), None}, top_p : {None}]

WriterFrames == {<<DONE>>, <<P_Hi, DONE>>}

InitWriters ==
    /\ pc = "idle"
    /\ args \in StreamArgs
    /\ files = <<>>
    /\ clock = 0
    /\ t_start = 0
    /\ last_chunk_time = 0
    /\ raw_events = <<>>
    /\ result = StreamResult
    /\ save_receipt = FALSE
    /\ exit_by = "none"
    /\ nlines = 0
    /\ vpc = "start"
    /\ data = <<>>
    /\ tamper = FALSE
    /\ vresult = <<>>
    /\ tampered_result = <<>>
    /\ input = <<>>
    /\ dpos = 0
    /\ yielded = <<>>
    /\ payload = <<>>
    /\ second_result = <<>>
    /\ text = <<>>
    /\ bench_pc = "idle"
    /\ bench_enabled = FALSE
    /\ run_specs = <<>>
    /\ run_pos = 0
    /\ recorder = "none"
    /\ bench_file = <<>>
    /\ bench_buf = <<>>

\* one session reaches _write_receipt with the frames it recorded
SessionWritesReceipt ==
    /\ \E ts \in WriterTimestamps, a \in WriterArgs, evs \in WriterFrames :
         LET w == _write_receipt(ts, a.model,
                                 _build_payload(a.model, a.messages, a.temperature, a.max_tokens, a.top_p),
                                 evs)
         IN  files' = (w.path :> w.receipt) @@ files
    /\ UNCHANGED <<svars, vvars, dvars, hvars, bvars>>

NextWriters == SessionWritesReceipt

SpecWriters == InitWriters /\ [][NextWriters]_vars

\* _build_payload applied to the arguments a caller can pass
PayloadArgs ==
    [model : {"org/model:v1", "org:model/v1"}, messages : {"user-prompt", "other-prompt"},
     temperature : {None, Some("0"), Some("1")}, max_tokens : {None, Some("0"), Some("256")},
     top_p : {None, Some("0"), Some("1")}]

InitPayload ==
    /\ pc = "build"
    /\ args \in PayloadArgs
    /\ files = <<>>
    /\ clock = 0
    /\ t_start = 0
    /\ last_chunk_time = 0
    /\ raw_events = <<>>
    /\ result = StreamResult
    /\ save_receipt = FALSE
    /\ exit_by = "none"
    /\ nlines = 0
    /\ vpc = "start"
    /\ data = <<>>
    /\ tamper = FALSE
    /\ vresult = <<>>
    /\ tampered_result = <<>>
    /\ input = <<>>
    /\ dpos = 0
    /\ yielded = <<>>
    /\ payload = <<>>
    /\ second_result = <<>>
    /\ text = <<>>
    /\ bench_pc = "idle"
    /\ bench_enabled = FALSE
    /\ run_specs = <<>>
    /\ run_pos = 0
    /\ recorder = "none"
    /\ bench_file = <<>>
    /\ bench_buf = <<>>

BuildPayload ==
    /\ pc = "build"
    /\ payload' = _build_payload(args.model, args.messages, args.temperature, args.max_tokens, args.top_p)
    /\ pc' = "built"
    /\ UNCHANGED <<clock, t_start, last_chunk_time, raw_events, result, save_receipt, args, exit_by, nlines,
                   files, vvars, dvars, second_result, text, bvars>>

NextPayload == BuildPayload

SpecPayload == InitPayload /\ [][NextPayload]_vars

\* ------------------------------------------------------------------------
\* A session whose response is fixed beforehand: the lines of the response
\* and the time at which each arrives
\* ------------------------------------------------------------------------
ReplayLines ==
    {<<DataPrefix, WS, p>> : p \in {DONE, P_NotJson, P_Hi, P_There, P_U127}}
    \cup {<<": keep-alive">>}

\* time that passes between two lines of the response
ReplayGaps == {stall_threshold_ms, stall_threshold_ms + 1}

RECURSIVE SumTo(_, _)
SumTo(gs, k) == IF k = 0 THEN 0 ELSE gs[k] + SumTo(gs, k - 1)

\* the response that starts to arrive at time t0
Schedule(ls, gs, t0) == [k \in 1..Len(ls) |-> [line |-> ls[k], at |-> t0 + SumTo(gs, k)]]

InitReplay ==
    /\ pc = "post"
    /\ clock \in {7}
    /\ t_start = clock
    /\ last_chunk_time = clock
    /\ raw_events = <<>>
    /\ result = StreamResult
    /\ save_receipt = TRUE
    /\ args \in StreamArgs
    /\ exit_by = "none"
    /\ nlines = 0
    /\ files = <<>>
    /\ vpc = "start"
    /\ data = <<>>
    /\ tamper = FALSE
    /\ vresult = <<>>
    /\ tampered_result = <<>>
    /\ \E ls \in SeqsUpTo(ReplayLines, MaxLines) :
         \E gs \in [1..Len(ls) -> ReplayGaps] :
            input = Schedule(ls, gs, t_start + 1)
    /\ dpos = 0
    /\ yielded = <<>>
    /\ payload = _build_payload(args.model, args.messages, args.temperature, args.max_tokens, args.top_p)
    /\ second_result = <<>>
    /\ text = <<>>
    /\ bench_pc = "idle"
    /\ bench_enabled = FALSE
    /\ run_specs = <<>>
    /\ run_pos = 0
    /\ recorder = "none"
    /\ bench_file = <<>>
    /\ bench_buf = <<>>

\* resp.iter_lines() delivers the next line of the response
ReplayLine ==
    /\ pc = "stream"
    /\ nlines < Len(input)
    /\ nlines' = nlines + 1
    /\ clock' = input[nlines + 1].at
    /\ LET y == IterSseLine(input[nlines + 1].line)
       IN  IF y = <<>>
           THEN UNCHANGED <<pc, last_chunk_time, raw_events, result, exit_by>>
           ELSE Consume(y[1], clock')
    /\ UNCHANGED <<t_start, save_receipt, args, files, vvars, dvars, hvars, bvars>>

\* resp.iter_lines() is exhausted after the last line of the response
ReplayEndOfInput ==
    /\ nlines = Len(input)
    /\ EndOfInput

NextReplay == Post \/ ReplayLine \/ ReplayEndOfInput \/ TransportFail \/ Finalize

SpecReplay == InitReplay /\ [][NextReplay]_vars

\* ------------------------------------------------------------------------
\* stream_chat with every step of the call taken eventually
\* ------------------------------------------------------------------------
NextSession == Post \/ ReadLine \/ EndOfInput \/ TransportFail \/ Finalize

SpecLive == Init /\ [][NextSession]_vars /\ WF_vars(NextSession)

\* ------------------------------------------------------------------------
\* run of ambient_client/app/runner.py with the metrics log of bench.py
\* ------------------------------------------------------------------------
MaxRuns == 2

\* iter_run_specs(bench_enabled, warmup_runs, bench_runs)
iter_run_specs(enabled, warmup_runs, bench_runs) ==
    IF ~enabled THEN <<[index |-> 0, total |-> 1, warmup |-> FALSE]>>
    ELSE [i \in 1..(warmup_runs + bench_runs) |->
            [index |-> i - 1, total |-> warmup_runs + bench_runs, warmup |-> i <= warmup_runs]]

\* build_bench_record(provider, model, api_url, spec)
build_bench_record(spec) ==
    [provider |-> "ambient", model |-> "org/model:v1", api_url |-> "api_url",
     run_index |-> spec.index, warmup |-> spec.warmup]

\* attach_result_metrics(record, result)
attach_result_metrics(record, r) ==
    [k \in DOMAIN record \cup {"ttfb_ms", "ttc_ms", "prompt_tokens", "completion_tokens", "text_chars",
                               "reasoning_chars", "stall_count", "parse_errors", "error", "receipt_path"} |->
        CASE k = "ttfb_ms" -> r.ttfb_ms
          [] k = "ttc_ms" -> r.ttc_ms
          [] k = "prompt_tokens" -> Some(r.prompt_tokens)
          [] k = "completion_tokens" -> Some(r.completion_tokens)
          [] k = "text_chars" -> Some(Len(r.text))
          [] k = "reasoning_chars" -> Some(Len(r.reasoning))
          [] k = "stall_count" -> Some(r.stall_count)
          [] k = "parse_errors" -> Some(r.parse_errors)
          [] k = "error" -> r.error
          [] k = "receipt_path" -> r.receipt_path
          [] OTHER -> Some(record[k])]

\* json.dumps(record) + "\n", as the text of the record and the newline
JsonLine(record) == <<[t |-> "json", v |-> record], [t |-> "nl"]>>

FlushTo_truncate(file, buf) == buf

\* what a flush of the buffer does to a file opened with mode "a"
FlushTo(file, buf) == file \o buf

\* the results stream_chat can return to run: a session with text, a
\* session with a transport error and a session with no frame
BenchResults ==
    {[StreamResult EXCEPT !.text = <<"H", "i">>, !.ttfb_ms = Some(2), !.ttc_ms = Some(3),
                          !.prompt_tokens = 12, !.completion_tokens = 7],
     [StreamResult EXCEPT !.error = Some("ConnectionError"), !.ttc_ms = Some(1)],
     [StreamResult EXCEPT !.ttc_ms = Some(2)]}

\* what the log holds before run starts: nothing, or a record of an
\* earlier run
OldLogs ==
    {<<>>,
     JsonLine(attach_result_metrics(build_bench_record([index |-> 0, total |-> 1, warmup |-> FALSE]),
                                    [StreamResult EXCEPT !.error = Some("ReadTimeout"), !.ttc_ms = Some(1)]))}

InitBench ==
    /\ pc = "idle"
    /\ clock = 0
    /\ t_start = 0
    /\ last_chunk_time = 0
    /\ raw_events = <<>>
    /\ result = StreamResult
    /\ save_receipt = FALSE
    /\ args \in StreamArgs
    /\ exit_by = "none"
    /\ nlines = 0
    /\ files = <<>>
    /\ vpc = "start"
    /\ data = <<>>
    /\ tamper = FALSE
    /\ vresult = <<>>
    /\ tampered_result = <<>>
    /\ input = <<>>
    /\ dpos = 0
    /\ yielded = <<>>
    /\ payload = <<>>
    /\ second_result = <<>>
    /\ text = <<>>
    /\ bench_pc = "open"
    /\ bench_enabled \in BOOLEAN
    /\ \E warmup_runs \in 0..1, bench_runs \in 0..MaxRuns :
         run_specs = iter_run_specs(bench_enabled, warmup_runs, bench_runs)
    /\ run_pos = 0
    /\ recorder = "none"
    /\ bench_file \in OldLogs
    /\ bench_buf = <<>>

nbvars == <<pc, clock, t_start, last_chunk_time, raw_events, save_receipt, args, exit_by, nlines,
            files, vvars, dvars, hvars>>

\* recorder = BenchRecorder(cfg.bench_output) if cfg.bench_enabled else None
BenchOpen ==
    /\ bench_pc = "open"
    /\ IF bench_enabled
       THEN recorder' \in {"open", "nofile"}
       ELSE recorder' = "none"
    /\ bench_pc' = "loop"
    /\ UNCHANGED <<nbvars, result, bench_enabled, run_specs, run_pos, bench_file, bench_buf>>

\* one pass of the loop over specs up to the test before recorder.write:
\* stream_chat returns a result and run prints it; formatting a ttfb_ms
\* of None raises TypeError
BenchSession ==
    /\ bench_pc = "loop"
    /\ run_pos < Len(run_specs)
    /\ run_pos' = run_pos + 1
    /\ \E r \in BenchResults :
        /\ result' = r
        /\ bench_pc' =
             IF r.error = None /\ r.ttfb_ms = None THEN "raised"
             ELSE IF recorder # "none" /\ ~run_specs[run_pos + 1].warmup THEN "write"
             ELSE "loop"
    /\ UNCHANGED <<nbvars, bench_enabled, run_specs, recorder, bench_file, bench_buf>>

\* self._file.write(json.dumps(record) + "\n")
RecorderWrite ==
    /\ bench_pc = "write"
    /\ IF recorder = "open"
       THEN /\ bench_buf' = bench_buf \o JsonLine(attach_result_metrics(build_bench_record(run_specs[run_pos]),
                                                                        result))
            /\ bench_pc' = "flush"
       ELSE /\ UNCHANGED bench_buf
            /\ bench_pc' = "loop"
    /\ UNCHANGED <<nbvars, result, bench_enabled, run_specs, run_pos, recorder, bench_file>>

\* self._file.flush(): the buffer reaches the file, or OSError is caught
\* and the file is as it was
RecorderFlush ==
    /\ bench_pc = "flush"
    /\ \/ /\ bench_file' = FlushTo(bench_file, bench_buf)
          /\ bench_buf' = <<>>
       \/ /\ UNCHANGED bench_file
          /\ bench_buf' \in {bench_buf, <<>>}
    /\ bench_pc' = "loop"
    /\ UNCHANGED <<nbvars, result, bench_enabled, run_specs, run_pos, recorder>>

\* recorder.close() after the last spec
RecorderClose ==
    /\ bench_pc = "loop"
    /\ run_pos = Len(run_specs)
    /\ IF recorder = "open"
       THEN /\ bench_file' = FlushTo(bench_file, bench_buf)
            /\ bench_buf' = <<>>
            /\ recorder' = "closed"
       ELSE UNCHANGED <<bench_file, bench_buf, recorder>>
    /\ bench_pc' = "done"
    /\ UNCHANGED <<nbvars, result, bench_enabled, run_specs, run_pos>>

\* the process is interrupted: what is in its buffer is lost
BenchInterrupt ==
    /\ bench_pc \in {"open", "loop", "write", "flush"}
    /\ bench_pc' = "killed"
    /\ bench_buf' = <<>>
    /\ UNCHANGED <<nbvars, result, bench_enabled, run_specs, run_pos, recorder, bench_file>>

NextBench == BenchOpen \/ BenchSession \/ RecorderWrite \/ RecorderFlush \/ RecorderClose \/ BenchInterrupt

SpecBench == InitBench /\ [][NextBench]_vars

\* ------------------------------------------------------------------------
\* Properties
\* ------------------------------------------------------------------------
Status(r, i) == r.checks[i].status

\* the normal verification of the loaded receipt has returned a report
Reported == vpc \in {"tamper", "exit"}

\* the tamper simulation has returned a report
TamperReported == vpc = "exit" /\ tamper

\* C1 as stated: a receipt written from a session with at least one frame
\* verifies with no FAIL check.
C1_RoundTripNoFail ==
    (Reported /\ raw_events # <<>>) => Verified(vresult)

\* C1 amended: verifying the receipt a session wrote returns a report whose
\* events_hash and payload_hash checks are PASS and whose usage check is not
\* FAIL; event parsing is FAIL exactly when the session counted a parse
\* error and content is FAIL exactly when the session's text is empty, so
\* there is no FAIL when there was no parse error and the text is not empty.
C1_RoundTrip ==
    /\ pc = "returned" => vpc # "raised"
    /\ Reported =>
        /\ Status(vresult, 1) = PASS
        /\ Status(vresult, 2) = PASS
        /\ (Status(vresult, 3) = FAIL) <=> (result.parse_errors > 0)
        /\ (Status(vresult, 4) = FAIL) <=> (result.text = <<>>)
        /\ Status(vresult, 5) # FAIL
        /\ (result.parse_errors = 0 /\ result.text # <<>>) => Verified(vresult)

C1_Witness ==
    /\ Reported
    /\ Len(raw_events) >= 2
    /\ result.parse_errors = 0
    /\ result.text # <<>>
    /\ Verified(vresult)

\* frames that parse to the expected structure
WellFormedFrames == {fake_event, P_Hi, P_U127}

\* the report for the loaded receipt with frame f inserted at position i
InsertedReport(i, f) ==
    verify_receipt(("raw_events" :> Insert(DataGet(data, "raw_events", <<>>), i, f)) @@ data, "copy")

\* C2 as stated: for any receipt, inserting a well-formed frame at any
\* position makes events_hash FAIL and leaves the payload_hash status.
C2_TamperAnyReceipt ==
    Reported =>
        \A i \in 0..Len(DataGet(data, "raw_events", <<>>)), f \in WellFormedFrames :
            /\ ~InsertedReport(i, f).raised
            /\ Status(InsertedReport(i, f), 1) = FAIL
            /\ Status(InsertedReport(i, f), 2) = Status(vresult, 2)

\* C2 amended: for any receipt whose events_hash check is PASS unmodified,
\* inserting a well-formed frame at any position makes events_hash FAIL and
\* leaves the payload_hash status.
C2_Tamper ==
    (Reported /\ Status(vresult, 1) = PASS) =>
        \A i \in 0..Len(DataGet(data, "raw_events", <<>>)), f \in WellFormedFrames :
            /\ ~InsertedReport(i, f).raised
            /\ Status(InsertedReport(i, f), 1) = FAIL
            /\ Status(InsertedReport(i, f), 2) = Status(vresult, 2)

C2_Witness ==
    /\ Reported
    /\ Status(vresult, 1) = PASS
    /\ Status(vresult, 2) = FAIL
    /\ Len(DataGet(data, "raw_events", <<>>)) >= 2

C4_FrameErrorsNeverEscalate == pc # "raised"

\* C5: verify_receipt never raises to its caller.
C5_VerifyNeverRaises == vpc # "raised"

\* a raw line whose first token after leading whitespace is the data prefix
IsDataLine(line) ==
    \E i \in 1..Len(line) : line[i] = DataPrefix /\ \A j \in 1..(i - 1) : line[j] = WS

\* a data line that carries the sentinel
IsSentinelLine(line) == IsDataLine(line) /\ \E i \in 1..Len(line) : line[i] = DONE

DataLinesRead == {k \in 1..dpos : IsDataLine(input[k])}

\* C6 as stated: _iter_sse_data yields nothing after the sentinel frame.
C6_DecoderStopsAtSentinel ==
    \A i \in 1..Len(yielded) : yielded[i] = DONE => i = Len(yielded)

\* C6 amended: _iter_sse_data yields one frame for every data line it has
\* read, those after the sentinel included, and the sentinel for a
\* sentinel line; when the last data line read is the only sentinel line,
\* the sentinel frame is the last one yielded and the only sentinel.
C6_DecoderYieldsEveryDataLine ==
    /\ Len(yielded) = Cardinality(DataLinesRead)
    /\ \A k \in DataLinesRead :
         LET n == Cardinality({j \in DataLinesRead : j <= k})
         IN  IsSentinelLine(input[k]) <=> yielded[n] = DONE
    /\ \A k \in DataLinesRead :
         (/\ IsSentinelLine(input[k])
          /\ \A j \in DataLinesRead : j <= k
          /\ \A j \in DataLinesRead : j < k => ~IsSentinelLine(input[j]))
         => /\ yielded[Len(yielded)] = DONE
            /\ \A i \in 1..(Len(yielded) - 1) : yielded[i] # DONE

C6_Witness ==
    /\ dpos = Len(input)
    /\ Len(yielded) >= 2
    /\ yielded[1] = DONE
    /\ yielded[Len(yielded)] # DONE

\* the value of a usage field of a recorded frame, 0 when the frame has
\* no such value
ObservedCount(ev, field) ==
    IF ev \notin DOMAIN JsonTable THEN 0
    ELSE LET obj == JsonTable[ev]
         IN  IF obj.t = "dict" /\ "usage" \in DOMAIN obj.d
                /\ obj.d["usage"].t = "dict" /\ field \in DOMAIN obj.d["usage"].d
                /\ obj.d["usage"].d[field].t = "int"
             THEN obj.d["usage"].d[field].n
             ELSE 0

LastNonZero(evs, field) ==
    LET nz == {i \in 1..Len(evs) : ObservedCount(evs[i], field) # 0}
    IN  IF nz = {} THEN 0
        ELSE ObservedCount(evs[CHOOSE i \in nz : \A j \in nz : j <= i], field)

\* C7: each token counter is the last non-zero value observed for it, and
\* a step never takes a counter from non-zero to zero.
C7_MonotoneTokenCounters ==
    /\ [](result.prompt_tokens = LastNonZero(raw_events, "prompt_tokens"))
    /\ [](result.completion_tokens = LastNonZero(raw_events, "completion_tokens"))
    /\ [][/\ result.prompt_tokens # 0 => result'.prompt_tokens # 0
          /\ result.completion_tokens # 0 => result'.completion_tokens # 0]_vars

C7_Witness ==
    /\ raw_events = <<P_U50, P_U00, P_U127>>
    /\ result.prompt_tokens = 12
    /\ result.completion_tokens = 7

\* C8: the step that records a transport error changes nothing else of
\* the result and nothing of the raw frames, no frame is consumed after
\* it, and the returned session keeps the error.
C8_TransportFailureRetains ==
    [][/\ (result.error = None /\ result'.error # None) =>
            /\ result' = [result EXCEPT !.error = result'.error]
            /\ raw_events' = raw_events
            /\ pc' = "finalize"
       /\ result.error # None =>
            /\ result'.error = result.error
            /\ result'.text = result.text
            /\ result'.reasoning = result.reasoning
            /\ result'.prompt_tokens = result.prompt_tokens
            /\ result'.completion_tokens = result.completion_tokens
            /\ raw_events' = raw_events
            /\ nlines' = nlines]_vars

C8_Witness ==
    /\ pc = "returned"
    /\ result.error # None
    /\ raw_events # <<>>
    /\ result.text # <<>>
    /\ result.prompt_tokens # 0

\* C9: a returned session has a ttc_ms that is set and not negative,
\* whichever way the loop was left.
C9_TtcAlwaysSet ==
    pc = "returned" =>
        /\ exit_by \in {"sentinel", "eof", "error"}
        /\ result.ttc_ms # None
        /\ result.ttc_ms[1] >= 0

C9_Witness ==
    /\ pc = "returned"
    /\ exit_by = "error"
    /\ raw_events # <<>>
    /\ result.ttc_ms # None

\* C10: a session that ended without a frame and without a transport
\* failure has no ttfb_ms, no text, a ttc_ms >= 0 and no error, while a
\* session that ended by a transport failure has an error.
C10_EmptyStream ==
    /\ (pc = "returned" /\ raw_events = <<>> /\ exit_by # "error") =>
        /\ result.ttfb_ms = None
        /\ result.text = <<>>
        /\ result.ttc_ms # None
        /\ result.ttc_ms[1] >= 0
        /\ result.error = None
    /\ (pc = "returned" /\ exit_by = "error") => result.error # None

C10_Witness ==
    /\ pc = "returned"
    /\ raw_events = <<>>
    /\ exit_by = "eof"
    /\ nlines > 0
    /\ result.error = None

\* C11: no receipt with event_count 0 or with no frame is ever written: a
\* stream_chat session that recorded no frame returns without a receipt
\* path and leaves the receipt directory as it was, and first_inference.py
\* writes no receipt when it recorded no frame.
C11_NoZeroFrameReceipt ==
    /\ \A p \in DOMAIN files : files[p].event_count # 0 /\ files[p].raw_events # <<>>
    /\ (pc \in {"returned", "exit"} /\ raw_events = <<>>) =>
            /\ files = <<>>
            /\ result.receipt_path = None

C11_Witness ==
    /\ pc = "returned"
    /\ save_receipt
    /\ nlines > 0
    /\ raw_events = <<>>
    /\ files = <<>>

\* the statuses of the checks of a report
StatusesOf(r) == {r.checks[i].status : i \in 1..Len(r.checks)}

\* C12: a report is verified exactly when none of its checks is FAIL, so
\* a report whose checks are all PASS or SKIP is verified.
C12_VerifiedIffNoFail ==
    /\ Reported =>
        /\ Verified(vresult) <=> FAIL \notin StatusesOf(vresult)
        /\ StatusesOf(vresult) \subseteq {PASS, SKIP} => Verified(vresult)
    /\ TamperReported =>
        /\ Verified(tampered_result) <=> FAIL \notin StatusesOf(tampered_result)
        /\ StatusesOf(tampered_result) \subseteq {PASS, SKIP} => Verified(tampered_result)

C12_Witness ==
    /\ Reported
    /\ SKIP \in StatusesOf(vresult)
    /\ FAIL \notin StatusesOf(vresult)
    /\ Verified(vresult)

CheckNames == <<"events_hash", "payload_hash", "event parsing", "content", "usage">>

NamesOf(r) == [i \in 1..Len(r.checks) |-> r.checks[i].name]

\* C13: every report verify_receipt returns has the five checks
\* events_hash, payload_hash, event parsing, content, usage in this order,
\* whatever the statuses of its checks.
C13_FiveChecksInOrder ==
    /\ Reported => NamesOf(vresult) = CheckNames
    /\ TamperReported => NamesOf(tampered_result) = CheckNames

C13_Witness ==
    /\ Reported
    /\ \A i \in 1..4 : Status(vresult, i) = FAIL
    /\ Len(vresult.checks) = 5

C15_TamperOnCopy ==
    /\ [][vpc = "tamper" => (data' = data /\ files' = files /\ vresult' = vresult)]_vars
    /\ [](TamperReported =>
            LET raw == DataGet(data, "raw_events", <<>>)
                mid == Len(raw) \div 2
                t == Tampered(data)
            IN  /\ DOMAIN t = DOMAIN data \cup {"raw_events"}
                /\ \A k \in DOMAIN data \ {"raw_events"} : t[k] = data[k]
                /\ Len(t.raw_events) = Len(raw) + 1
                /\ t.raw_events[mid + 1] = fake_event
                /\ \A i \in 1..mid : t.raw_events[i] = raw[i]
                /\ \A i \in (mid + 1)..Len(raw) : t.raw_events[i + 1] = raw[i]
                /\ tampered_result.event_count = Len(raw) + 1
                /\ \E path \in DOMAIN files : files[path] = data)

C15_Witness ==
    /\ TamperReported
    /\ Len(DataGet(data, "raw_events", <<>>)) = 2
    /\ tampered_result.event_count = 3
    /\ vresult.event_count = 2

\* a receipt without the field key
Remove(d, key) == [f \in DOMAIN d \ {key} |-> d[f]]

\* the report for the loaded receipt with the field key removed
RemovedReport(key) == verify_receipt(Remove(data, key), "receipt_path")

\* C16 as stated: removing any field of any receipt changes no check of
\* the report to FAIL.
C16_MissingFieldNeverFails ==
    Reported =>
        \A key \in DOMAIN data :
            LET r == RemovedReport(key)
            IN  /\ ~r.raised
                /\ \A i \in 1..Len(vresult.checks) : Status(r, i) = FAIL => Status(vresult, i) = FAIL

\* C16 amended: a receipt without events_hash has check 1 SKIP and one
\* without payload_hash has check 2 SKIP; removing events_hash,
\* payload_hash, model, timestamp or event_count from a receipt changes
\* no other check, so it changes no check to FAIL.
C16_MissingHashFieldSkips ==
    Reported =>
        /\ "events_hash" \notin DOMAIN data => Status(vresult, 1) = SKIP
        /\ "payload_hash" \notin DOMAIN data => Status(vresult, 2) = SKIP
        /\ \A key \in DOMAIN data \ {"raw_events"} :
            LET r == RemovedReport(key)
            IN  /\ ~r.raised
                /\ NamesOf(r) = CheckNames
                /\ \A i \in 1..Len(vresult.checks) :
                     IF CheckNames[i] = key
                     THEN Status(r, i) = SKIP
                     ELSE r.checks[i] = vresult.checks[i]

C16_Witness ==
    /\ Reported
    /\ "payload_hash" \notin DOMAIN data
    /\ Len(data.raw_events) >= 1
    /\ Status(vresult, 1) = PASS
    /\ Status(vresult, 2) = SKIP
    /\ Verified(vresult)

\* C17: no call of the receipt generator changes or removes the file of a
\* receipt that an earlier call wrote.
C17_ReceiptNeverOverwritten ==
    [][\A path \in DOMAIN files : path \in DOMAIN files' /\ files'[path] = files[path]]_vars

\* C18: the request body has model and messages as passed, stream = true
\* and the include-usage option, and has temperature, max_tokens and top_p
\* with the caller's value exactly when the caller passed one, 0 included.
C18_PayloadFields ==
    pc = "built" =>
        /\ {"model", "messages", "stream", "stream_options"} \subseteq DOMAIN payload
        /\ DOMAIN payload \subseteq
              {"model", "messages", "stream", "stream_options", "temperature", "max_tokens", "top_p"}
        /\ payload["model"] = args.model
        /\ payload["messages"] = args.messages
        /\ payload["stream"] = "true"
        /\ payload["stream_options"] = "include_usage"
        /\ \A k \in {"temperature", "max_tokens", "top_p"} :
             /\ k \in DOMAIN payload <=> args[k] # None
             /\ k \in DOMAIN payload => payload[k] = args[k][1]

C18_Witness ==
    /\ pc = "built"
    /\ args.temperature = Some("0")
    /\ args.max_tokens = None
    /\ args.top_p = Some("1")
    /\ DOMAIN payload = {"model", "messages", "stream", "stream_options", "temperature", "top_p"}
    /\ payload["temperature"] = "0"

\* C19: a line that is skipped changes neither the result (ttfb_ms,
\* stall_count) nor the previous-frame time, and a frame sets ttfb_ms and
\* counts a stall from its own arrival time, the arrival time of the
\* previous frame and the start time only; so ttfb_ms and stall_count are
\* what they would be without the skipped lines.
C19_SkippedLinesDoNotAffectTiming ==
    /\ [][(pc = "stream" /\ nlines' = nlines + 1) =>
            IF raw_events' = raw_events
            THEN result' = result /\ last_chunk_time' = last_chunk_time
            ELSE /\ last_chunk_time' = clock'
                 /\ result'.ttfb_ms =
                        IF result.ttfb_ms = None THEN Some(clock' - t_start) ELSE result.ttfb_ms
                 /\ result'.stall_count =
                        result.stall_count
                        + (IF clock' - last_chunk_time > stall_threshold_ms /\ result.ttfb_ms # None
                           THEN 1 ELSE 0)]_vars
    /\ []((pc \in {"post", "stream", "finalize", "returned"} /\ raw_events = <<>>) =>
            (result.ttfb_ms = None /\ result.stall_count = 0 /\ last_chunk_time = t_start))

C19_Witness ==
    /\ pc = "returned"
    /\ nlines = 3
    /\ Len(raw_events) = 2
    /\ result.stall_count = 1
    /\ result.ttfb_ms = Some(2)

\* C20: a line with bytes that are not valid UTF-8 never ends a run by a
\* decoding error.
C20_UndecodableLineDoesNotAbort == ~(pc = "raised" /\ exit_by = "decode")

\* C21 as stated: a returned session whose frames carry no non-zero token
\* count exposes a null, not a number, for both token counts.
C21_TokenCountsNullUntilUsage ==
    (/\ pc = "returned"
     /\ LastNonZero(raw_events, "prompt_tokens") = 0
     /\ LastNonZero(raw_events, "completion_tokens") = 0) =>
        (result.prompt_tokens \notin Int /\ result.completion_tokens \notin Int)

\* the payloads that end a stream
IsTerminal(p) == p \in {DONE, P_DoneWS}

InSession == pc \in {"post", "stream", "finalize", "returned"}

\* C23: the raw-frame log holds the sentinel at most once and only as its
\* last element; the step that consumes the sentinel changes neither the
\* text, the reasoning, the token counts nor parse_errors and ends the
\* consumption; after it no step changes the text, the reasoning, the
\* token counts, stall_count, parse_errors, the raw-frame log or the
\* number of lines read.
C23_SentinelIsLast ==
    /\ [](InSession =>
            /\ \A i \in 1..Len(raw_events) : IsTerminal(raw_events[i]) => i = Len(raw_events)
            /\ (exit_by = "sentinel") <=>
                 (raw_events # <<>> /\ IsTerminal(raw_events[Len(raw_events)])))
    /\ [][(InSession /\ raw_events' # raw_events /\ IsTerminal(raw_events'[Len(raw_events')])) =>
            /\ result'.text = result.text
            /\ result'.reasoning = result.reasoning
            /\ result'.prompt_tokens = result.prompt_tokens
            /\ result'.completion_tokens = result.completion_tokens
            /\ result'.parse_errors = result.parse_errors
            /\ pc' = "finalize"]_vars
    /\ [][(InSession /\ exit_by = "sentinel") =>
            /\ result'.text = result.text
            /\ result'.reasoning = result.reasoning
            /\ result'.prompt_tokens = result.prompt_tokens
            /\ result'.completion_tokens = result.completion_tokens
            /\ result'.stall_count = result.stall_count
            /\ result'.parse_errors = result.parse_errors
            /\ raw_events' = raw_events
            /\ nlines' = nlines]_vars

C23_Witness ==
    /\ pc = "returned"
    /\ exit_by = "sentinel"
    /\ raw_events = <<P_Hi, DONE>>
    /\ nlines = 2
    /\ result.text = <<"H", "i">>
    /\ result.parse_errors = 0

\* C27: ttfb_ms is null exactly while no data frame has been consumed,
\* the step that consumes the first frame sets it to the time since the
\* start, and no step changes it once it is set.
C27_TtfbSticky ==
    /\ [](InSession => (result.ttfb_ms = None <=> raw_events = <<>>))
    /\ [][(InSession /\ raw_events = <<>> /\ raw_events' # <<>>) =>
            result'.ttfb_ms = Some(clock' - t_start)]_vars
    /\ [][(InSession /\ result.ttfb_ms # None) => result'.ttfb_ms = result.ttfb_ms]_vars

C27_Witness ==
    /\ pc = "returned"
    /\ Len(raw_events) = 3
    /\ result.ttfb_ms = Some(2)
    /\ clock - t_start > 2 * stall_threshold_ms

\* C30: check 1 of the report is SKIP exactly when the receipt has no
\* events_hash or an empty one, PASS exactly when it has one that equals
\* the digest of the stored raw frames joined by newline, and FAIL
\* exactly when it has one that differs from it.
C30_EventsHashStatus ==
    Reported =>
        LET stored == IF "events_hash" \in DOMAIN data THEN data.events_hash ELSE <<>>
            raw == IF "raw_events" \in DOMAIN data THEN data.raw_events ELSE <<>>
            digest == _hash(Join(raw))
        IN  /\ vresult.checks[1].name = "events_hash"
            /\ Status(vresult, 1) = SKIP <=> stored = <<>>
            /\ Status(vresult, 1) = PASS <=> (stored # <<>> /\ stored = digest)
            /\ Status(vresult, 1) = FAIL <=> (stored # <<>> /\ stored # digest)

C30_Witness ==
    /\ Reported
    /\ "events_hash" \in DOMAIN data
    /\ "raw_events" \in DOMAIN data
    /\ Len(data.raw_events) = 2
    /\ data.raw_events[1] # data.raw_events[2]
    /\ Status(vresult, 1) = PASS

\* the data lines among the lines of the response read so far, each with
\* its arrival time
FramesRead == SelectSeq([k \in 1..nlines |-> input[k]], LAMBDA x : IsDataLine(x.line))

\* the payload of a data line of ReplayLines: its last token
PayloadOf(line) == line[Len(line)]

PayloadsRead == [k \in 1..Len(FramesRead) |-> PayloadOf(FramesRead[k].line)]

\* C24: at every point of a session the raw-frame log is the sequence of
\* the payloads of the data lines read so far, in arrival order, frames
\* that do not parse and the sentinel included; the receipt of a returned
\* session stores that sequence as raw_events and its length as
\* event_count.
C24_RawLogFaithful ==
    /\ InSession => raw_events = PayloadsRead
    /\ (pc = "returned" /\ raw_events # <<>>) =>
          /\ result.receipt_path # None
          /\ result.receipt_path[1] \in DOMAIN files
          /\ files[result.receipt_path[1]].raw_events = PayloadsRead
          /\ files[result.receipt_path[1]].event_count = Len(PayloadsRead)

C24_Witness ==
    /\ pc = "returned"
    /\ raw_events = <<P_NotJson, P_Hi, DONE>>
    /\ files[result.receipt_path[1]].raw_events = <<P_NotJson, P_Hi, DONE>>
    /\ files[result.receipt_path[1]].event_count = 3

\* the fragments of one field in the deltas of a choice list, in list
\* order
RECURSIVE ChoiceFragments(_, _)
ChoiceFragments(choices, field) ==
    IF choices = <<>> THEN <<>>
    ELSE LET delta == Head(choices).d["delta"].d
         IN  (IF field \in DOMAIN delta THEN delta[field].s ELSE <<>>)
             \o ChoiceFragments(Tail(choices), field)

\* the fragments of one field in a sequence of payloads, in frame order:
\* a payload that is the sentinel or does not parse has none
RECURSIVE Concatenation(_, _)
Concatenation(ps, field) ==
    IF ps = <<>> THEN <<>>
    ELSE (IF Head(ps) \in DOMAIN JsonTable /\ ~IsTerminal(Head(ps))
          THEN ChoiceFragments(JsonTable[Head(ps)].d["choices"].l, field)
          ELSE <<>>)
         \o Concatenation(Tail(ps), field)

\* C25: the text of a session is the concatenation of the content
\* fragments of the frames read, in frame order and within a frame in
\* choice-list order, and its reasoning is that of the reasoning_content
\* fragments.
C25_TextIsConcatenation ==
    InSession =>
        /\ result.text = Concatenation(PayloadsRead, "content")
        /\ result.reasoning = Concatenation(PayloadsRead, "reasoning_content")

\* frames "Hi" and " there", then the sentinel
C25_Witness ==
    /\ pc = "returned"
    /\ PayloadsRead = <<P_Hi, P_There, DONE>>
    /\ result.text = <<"H", "i", " ", "t", "h", "e", "r", "e">>
    /\ result.reasoning = <<"h", "m">>
    /\ Len(raw_events) = 3
    /\ result.parse_errors = 0

\* a payload json.loads rejects
Unparseable(p) == ~IsTerminal(p) /\ p \notin DOMAIN JsonTable

ParseErrorsIn(ps) == Cardinality({k \in 1..Len(ps) : Unparseable(ps[k])})

\* the sequence ps without its element k
Without(ps, k) == SubSeq(ps, 1, k - 1) \o SubSeq(ps, k + 1, Len(ps))

\* C26: text, reasoning, token counts and parse_errors of a session are
\* functions of the frames read, the raw-frame log is those frames, and
\* for every unparseable frame of a session the frames without it
\* determine the same text, reasoning and token counts and one parse
\* error less; the step that consumes an unparseable frame appends it to
\* the log, adds one to parse_errors and changes none of the others.
C26_UnparseableFrameCountsOnce ==
    /\ [](InSession =>
            /\ raw_events = PayloadsRead
            /\ result.parse_errors = ParseErrorsIn(PayloadsRead)
            /\ result.text = Concatenation(PayloadsRead, "content")
            /\ result.reasoning = Concatenation(PayloadsRead, "reasoning_content")
            /\ result.prompt_tokens = LastNonZero(PayloadsRead, "prompt_tokens")
            /\ result.completion_tokens = LastNonZero(PayloadsRead, "completion_tokens")
            /\ \A k \in 1..Len(PayloadsRead) :
                 Unparseable(PayloadsRead[k]) =>
                    LET rest == Without(PayloadsRead, k)
                    IN  /\ result.parse_errors = ParseErrorsIn(rest) + 1
                        /\ result.text = Concatenation(rest, "content")
                        /\ result.reasoning = Concatenation(rest, "reasoning_content")
                        /\ result.prompt_tokens = LastNonZero(rest, "prompt_tokens")
                        /\ result.completion_tokens = LastNonZero(rest, "completion_tokens"))
    /\ [][(InSession /\ nlines' = nlines + 1 /\ IsDataLine(input[nlines'].line)
           /\ Unparseable(PayloadOf(input[nlines'].line))) =>
            /\ raw_events' = Append(raw_events, PayloadOf(input[nlines'].line))
            /\ result'.parse_errors = result.parse_errors + 1
            /\ result'.text = result.text
            /\ result'.reasoning = result.reasoning
            /\ result'.prompt_tokens = result.prompt_tokens
            /\ result'.completion_tokens = result.completion_tokens
            /\ pc' = pc]_vars

C26_Witness ==
    /\ pc = "returned"
    /\ raw_events = <<P_U127, P_NotJson, P_There>>
    /\ result.parse_errors = 1
    /\ result.text = <<" ", "t", "h", "e", "r", "e">>
    /\ result.prompt_tokens = 12
    /\ result.completion_tokens = 7

\* the number of frames read, other than the first, that arrived more
\* than the stall threshold after the frame before them
StallsRead ==
    Cardinality({k \in 2..Len(FramesRead) :
                    FramesRead[k].at - FramesRead[k - 1].at > stall_threshold_ms})

\* C28: stall_count is the number of frames read, other than the first
\* and the sentinel included, whose arrival time is more than the stall
\* threshold after the arrival time of the frame before; the time from
\* the start to the first frame counts for nothing.
C28_StallCountIsInterFrameGaps ==
    InSession =>
        /\ result.stall_count = StallsRead
        /\ Len(FramesRead) <= 1 => result.stall_count = 0

C28_Witness ==
    /\ pc = "returned"
    /\ Len(FramesRead) = 3
    /\ IsTerminal(PayloadOf(FramesRead[3].line))
    /\ FramesRead[1].at - t_start > stall_threshold_ms
    /\ FramesRead[2].at - FramesRead[1].at = stall_threshold_ms
    /\ FramesRead[3].at - FramesRead[2].at > stall_threshold_ms
    /\ result.stall_count = 1

\* a text that is a sequence of whole record lines
WholeRecords(f) ==
    /\ Len(f) % 2 = 0
    /\ \A i \in 1..Len(f) : f[i].t = (IF i % 2 = 1 THEN "json" ELSE "nl")

IsPrefix(f, g) == Len(f) <= Len(g) /\ SubSeq(g, 1, Len(f)) = f

\* C22: the metrics log holds whole records only, at every point of a
\* run and after an interruption at any point; no step changes or removes
\* what the log already holds; a write adds one whole record to the
\* buffer and is followed by the flush, which appends the buffer to the
\* log or, on an error, leaves the log as it was.
C22_AppendOnlyWholeRecords ==
    /\ [](WholeRecords(bench_file))
    /\ [][IsPrefix(bench_file, bench_file')]_vars
    /\ [][(bench_pc = "write" /\ Len(bench_buf') > Len(bench_buf)) =>
            /\ \E r \in BenchResults, i \in 1..Len(run_specs) :
                 bench_buf' = bench_buf \o JsonLine(attach_result_metrics(build_bench_record(run_specs[i]), r))
            /\ bench_file' = bench_file
            /\ bench_pc' = "flush"]_vars
    /\ [][(bench_pc = "flush" /\ bench_pc' = "loop") =>
            \/ bench_file' = bench_file \o bench_buf /\ bench_buf' = <<>>
            \/ bench_file' = bench_file]_vars

C22_Witness ==
    /\ bench_pc = "done"
    /\ Len(bench_file) = 6
    /\ bench_file[1].v.error = Some("ReadTimeout")
    /\ bench_file[3].v.run_index = Some(0)
    /\ bench_file[5].v.run_index = Some(1)

\* C29 as stated: every call of stream_chat on a finite response, with
\* gaps of any length between its lines, returns.
C29_SessionEventuallyReturns == <>(pc = "returned")

\* C31 as stated: check 2 of the report is SKIP when the receipt has no
\* payload_hash, PASS when the stored payload_hash is a string of 64
\* hexadecimal digits and FAIL for every other stored value.
C31_PayloadHashStatus ==
    Reported =>
        Status(vresult, 2) =
            IF "payload_hash" \notin DOMAIN data THEN SKIP
            ELSE IF Len(data.payload_hash) = HexLen
                    /\ \A i \in 1..Len(data.payload_hash) : IsHexChar(data.payload_hash[i])
            THEN PASS
            ELSE FAIL

\* the stored frames of the loaded receipt
StoredRaw == IF "raw_events" \in DOMAIN data THEN data.raw_events ELSE <<>>

\* C32: check 3 of the report is FAIL exactly when a stored frame other
\* than the sentinel does not parse, and PASS otherwise; a sentinel at
\* any position is no parse error and a receipt without frames has PASS.
C32_EventParsingStatus ==
    Reported =>
        /\ vresult.checks[3].name = "event parsing"
        /\ Status(vresult, 3) = FAIL <=> ParseErrorsIn(StoredRaw) > 0
        /\ Status(vresult, 3) = PASS <=> ParseErrorsIn(StoredRaw) = 0
        /\ vresult.checks[3].detail.nums =
              IF ParseErrorsIn(StoredRaw) = 0
              THEN <<Len(StoredRaw), Len(StoredRaw)>>
              ELSE <<ParseErrorsIn(StoredRaw), Len(StoredRaw)>>
        /\ StoredRaw = <<>> => Status(vresult, 3) = PASS

C32_Witness ==
    /\ Reported
    /\ StoredRaw = <<P_DoneWS, P_Hi>>
    /\ Status(vresult, 3) = PASS
    /\ vresult.checks[3].detail.nums = <<2, 2>>

\* C33: check 4 of the report is FAIL exactly when the content fragments
\* of the stored frames that parse have no character, and PASS otherwise;
\* content_chars is the number of their characters.
C33_ContentStatus ==
    Reported =>
        LET content == Concatenation(StoredRaw, "content")
        IN  /\ vresult.checks[4].name = "content"
            /\ vresult.content_chars = Len(content)
            /\ Status(vresult, 4) = FAIL <=> Len(content) = 0
            /\ Status(vresult, 4) = PASS <=> Len(content) > 0

\* a frame with reasoning only and a frame with usage only have no content
C33_Witness ==
    /\ Reported
    /\ StoredRaw = <<P_Think, P_U127>>
    /\ Status(vresult, 4) = FAIL
    /\ vresult.content_chars = 0

\* the last stored frame with a non-zero prompt or completion count, 0
\* when there is none
LastWithCounts(raw) ==
    LET found == {k \in 1..Len(raw) :
                    ObservedCount(raw[k], "prompt_tokens") # 0 \/ ObservedCount(raw[k], "completion_tokens") # 0}
    IN  IF found = {} THEN 0 ELSE CHOOSE k \in found : \A h \in found : h <= k

\* C35: check 5 of the report is SKIP exactly when no stored frame has a
\* non-zero prompt or completion count, and PASS otherwise; the counts of
\* the report are both those of the last such frame.
C35_UsageStatus ==
    Reported =>
        LET k == LastWithCounts(StoredRaw)
        IN  /\ vresult.checks[5].name = "usage"
            /\ Status(vresult, 5) = SKIP <=> k = 0
            /\ Status(vresult, 5) = PASS <=> k # 0
            /\ k = 0 => (vresult.prompt_tokens = 0 /\ vresult.completion_tokens = 0)
            /\ k # 0 =>
                 /\ vresult.prompt_tokens = ObservedCount(StoredRaw[k], "prompt_tokens")
                 /\ vresult.completion_tokens = ObservedCount(StoredRaw[k], "completion_tokens")
                 /\ vresult.checks[5].detail.nums = <<vresult.prompt_tokens, vresult.completion_tokens>>

C35_Witness ==
    /\ Reported
    /\ StoredRaw = <<P_U127, P_U50>>
    /\ Status(vresult, 5) = PASS
    /\ vresult.prompt_tokens = 5
    /\ vresult.completion_tokens = 0

\* C39: the content check of the report of the tamper simulation is
\* PASS, so it is not FAIL where the content check of the first report is
\* PASS, and its event parsing and usage checks have the status they have
\* in the first report.
C39_TamperContentPasses ==
    TamperReported =>
        /\ Status(tampered_result, 4) = PASS
        /\ Status(tampered_result, 3) = Status(vresult, 3)
        /\ Status(tampered_result, 5) = Status(vresult, 5)

C39_Witness ==
    /\ TamperReported
    /\ StoredRaw = <<P_NotJson, P_Think>>
    /\ Status(vresult, 4) = FAIL
    /\ Status(tampered_result, 4) = PASS
    /\ Status(tampered_result, 3) = FAIL
    /\ Status(tampered_result, 5) = SKIP

\* C40: event_count of the report is the number of stored frames, and
\* the report of the receipt with any other stored event_count, or with
\* none, has the same checks.
C40_EventCountIgnored ==
    Reported =>
        /\ vresult.event_count = Len(StoredRaw)
        /\ \A ec \in 0..(Len(StoredRaw) + 1) :
             verify_receipt(("event_count" :> ec) @@ data, "receipt_path").checks = vresult.checks
        /\ verify_receipt(Remove(data, "event_count"), "receipt_path").checks = vresult.checks

C40_Witness ==
    /\ Reported
    /\ "event_count" \in DOMAIN data
    /\ Len(StoredRaw) = 2
    /\ data.event_count = 3
    /\ vresult.event_count = 2
    /\ Verified(vresult)

\* the number of frames check 3 of a report found unparseable
ReportedParseErrors(r) ==
    IF Status(r, 3) = PASS THEN r.event_count - r.checks[3].detail.nums[1]
    ELSE r.checks[3].detail.nums[1]

\* C34: in the report for the receipt a session wrote, content_chars is
\* the length of the session's text and the number of frames that did
\* not parse is the session's parse_errors.
C34_ReplayEquivalence ==
    Reported =>
        /\ data.raw_events = raw_events
        /\ vresult.content_chars = Len(result.text)
        /\ ReportedParseErrors(vresult) = result.parse_errors

C34_Witness ==
    /\ Reported
    /\ raw_events = <<P_NotJson, P_There, DONE>>
    /\ result.parse_errors = 1
    /\ ReportedParseErrors(vresult) = 1
    /\ vresult.content_chars = 6

\* C36 as stated: in the report for the receipt a session wrote, the
\* prompt and completion token counts are those of the session.
C36_UsageReplayEquivalence ==
    Reported =>
        /\ vresult.prompt_tokens = result.prompt_tokens
        /\ vresult.completion_tokens = result.completion_tokens

\* C37: the receipt a session wrote can be verified, and the report has
\* PASS for the events_hash check and for the payload_hash check,
\* whatever the frames of the session are.
C37_WrittenHashesPass ==
    /\ (pc = "returned" /\ result.receipt_path # None) => vpc # "raised"
    /\ Reported =>
         /\ vresult.checks[1] =
              Check("events_hash", PASS, Detail("sha256 matches", <<Prefix16(data.events_hash)>>, <<>>))
         /\ vresult.checks[2] =
              Check("payload_hash", PASS,
                    Detail("present and well-formed", <<Prefix16(data.payload_hash)>>, <<>>))

C37_Witness ==
    /\ Reported
    /\ raw_events = <<P_NotJson, P_Hi, P_NotJson>>
    /\ Status(vresult, 1) = PASS
    /\ Status(vresult, 2) = PASS
    /\ Status(vresult, 3) = FAIL

\* C38: a returned session has a receipt_path exactly when save_receipt
\* was set and a frame was recorded, with or without a transport error,
\* and the path is that of a file holding the recorded frames.
C38_ReceiptPathIffSavedFrames ==
    pc = "returned" =>
        /\ result.receipt_path # None <=> (save_receipt /\ raw_events # <<>>)
        /\ result.receipt_path # None =>
             /\ result.receipt_path[1] \in DOMAIN files
             /\ files[result.receipt_path[1]].raw_events = raw_events
        /\ result.receipt_path = None => files = <<>>

C38_Witness ==
    /\ pc = "returned"
    /\ result.error # None
    /\ Len(raw_events) = 2
    /\ result.receipt_path # None
    /\ result.receipt_path[1] \in DOMAIN files

====
